---- MODULE Spec2Model ----
(***************************************************************************)
(* Model of the multi-model response coordinator of AISystemHub            *)
(* (server/ai/multi-model-coordinator.ts) together with the streaming      *)
(* provider adapters it drives (openai.ts, anthropic.ts, grok.ts, the      *)
(* DeepSeek, Gemini and Perplexity providers).                             *)
(*                                                                         *)
(* Texts are TLA+ strings; the JavaScript string operations the code uses  *)
(* (includes, toLowerCase, split(/\s+/), substring) are defined on them    *)
(* character by character.                                                 *)
(***************************************************************************)
EXTENDS Integers, Sequences, FiniteSets, TLC

VARIABLES
    models,         \* MultiModelCoordinator.models, the provider registry
    pc,             \* position of the generateBestResponse call in flight
    messages,       \* the call's conversation history
    minModels,      \* options.minModels (None when left out)
    timeout,        \* options.timeout (None when left out)
    strategy,       \* options.strategy, once the switch at line 50 has read it
    streaming,      \* whether streaming callbacks were supplied
    queryType,      \* analyzeQueryType's answer for the call
    selectedModels, \* selectModelsForQuery's answer for the call
    invoked,        \* model ids whose provider.generateResponse was called
    race,           \* per selected model: Pending or how its Promise.race settled
    results,        \* per selected model: Pending or how its task completed
    responses,      \* what getMultipleResponses returned (after the filter)
    returned,       \* how generateBestResponse completed (Outcome record)
    streamPhase,    \* where the selected adapter's call stands: none; opening,
                    \* iterating, then ended, broken or refused (an adapter
                    \* that streams); fetching, then fetched or threw (one
                    \* that does not)
    emitted,        \* the deltas the provider SDK's stream has yielded so far
    callerLog,      \* the calls made to the caller's StreamingOptions callbacks
    cands,          \* a candidate list handed directly to a reducer
    reduced,        \* the reducer applied to cands last, and what it returned
    probe,          \* a pure function of the coordinator applied to given
                    \* arguments, and what it returned
    late,           \* per selected model: Pending, or how the provider's
                    \* promise settled after the task's timer had fired
    peer,           \* a second generateBestResponse call in flight on the
                    \* same instance: its locals and how it completed
    agent,          \* the AutonomousAgent: its fields, its autonomousCycle
                    \* loops and the improvement executions in flight
    chat            \* the WebSocket chat handler: the stored messages, the
                    \* handleChatMessage calls in flight and the frames sent

vars == <<models, pc, messages, minModels, timeout, strategy, streaming,
          queryType, selectedModels, invoked, race, results, responses,
          returned, streamPhase, emitted, callerLog, cands, reduced, probe,
          late, peer, agent, chat>>

----------------------------------------------------------------------------
(* Bounds of the model *)

\* largest minModels a caller passes
MaxMinModels == 3
\* most deltas one provider stream yields
MaxChunks == 3
\* longest candidate list handed directly to a reducer
MaxCands == 3

\* a string that is not set
NoValue == "undefined"

\* an optional value of another type: left out, or given
None == [given |-> FALSE]
Some(v) == [given |-> TRUE, value |-> v]

----------------------------------------------------------------------------
(* JavaScript strings *)

Min(a, b) == IF a < b THEN a ELSE b
Max(a, b) == IF a > b THEN a ELSE b
Abs(a) == IF a < 0 THEN -a ELSE a

\* String.prototype.substring(from, to), 0-based, end exclusive
Substring(s, from, to) ==
    LET a == Min(Max(from, 0), Len(s))
        b == Min(Max(to, 0), Len(s))
    IN  SubSeq(s, Min(a, b) + 1, Max(a, b))

CharAt(s, i) == SubSeq(s, i, i)

\* String.prototype.startsWith
StartsWith(s, prefix) == Len(prefix) <= Len(s) /\ SubSeq(s, 1, Len(prefix)) = prefix

\* String.prototype.includes
Includes(s, sub) ==
    \E i \in 1..(Len(s) - Len(sub) + 1) : SubSeq(s, i, i + Len(sub) - 1) = sub

UpperLetters == "ABCDEFGHIJKLMNOPQRSTUVWXYZ"
LowerLetters == "abcdefghijklmnopqrstuvwxyz"

UpperSet == {CharAt(UpperLetters, i) : i \in 1..Len(UpperLetters)}

LowerChar(c) ==
    IF c \in UpperSet
    THEN LET i == CHOOSE j \in 1..Len(UpperLetters) : CharAt(UpperLetters, j) = c
         IN  CharAt(LowerLetters, i)
    ELSE c

\* String.prototype.toLowerCase, character by character (a string with an
\* upper-case letter is halved, which keeps the recursion shallow)
RECURSIVE ToLowerCase(_)
ToLowerCase(s) ==
    IF \A i \in 1..Len(s) : CharAt(s, i) \notin UpperSet THEN s
    ELSE IF Len(s) = 1 THEN LowerChar(s)
    ELSE LET h == Len(s) \div 2
         IN  ToLowerCase(SubSeq(s, 1, h)) \o ToLowerCase(SubSeq(s, h + 1, Len(s)))

\* the characters the regular expression class \s matches, among those used
IsSpace(c) == c \in {" ", "\n", "\t"}

\* index of the first character of s at or after i that is (is not) a space;
\* Len(s) + 1 when there is none
RECURSIVE NextSpace(_, _)
NextSpace(s, i) ==
    IF i > Len(s) THEN i
    ELSE IF IsSpace(CharAt(s, i)) THEN i ELSE NextSpace(s, i + 1)

RECURSIVE NextNonSpace(_, _)
NextNonSpace(s, i) ==
    IF i > Len(s) THEN i
    ELSE IF IsSpace(CharAt(s, i)) THEN NextNonSpace(s, i + 1) ELSE i

\* String.prototype.split(/\s+/): the pieces between maximal runs of spaces;
\* "" gives <<"">>, a leading or trailing run gives an empty first or last piece
RECURSIVE SplitWs(_)
SplitWs(s) ==
    LET sp == NextSpace(s, 1)
    IN  IF sp > Len(s) THEN <<s>>
        ELSE <<SubSeq(s, 1, sp - 1)>>
             \o SplitWs(SubSeq(s, NextNonSpace(s, sp), Len(s)))

\* Array.prototype.slice(0, end) with JavaScript's treatment of a negative end
Slice0(arr, end) ==
    LET e == IF end < 0 THEN Max(Len(arr) + end, 0) ELSE Min(end, Len(arr))
    IN  SubSeq(arr, 1, e)

\* Array.prototype.sort with the comparator (a, b) => key(b) - key(a): a stable
\* sort into non-increasing key order. Element i lands behind every element
\* with a larger key and every earlier element with an equal key.
SortDescBy(arr, key(_)) ==
    LET n == Len(arr)
        pos(i) == 1 + Cardinality({j \in 1..n : key(arr[j]) > key(arr[i])})
                    + Cardinality({j \in 1..(i - 1) : key(arr[j]) = key(arr[i])})
    IN  [p \in 1..n |-> arr[CHOOSE i \in 1..n : pos(i) = p]]

\* the AutonomousAgent as constructed (openai.ts lines 153-157): inactive, no
\* current task, no autonomousCycle running, no manual improvement in flight
AgentConstructed ==
    [isActive |-> FALSE, currentTask |-> "none", loops |-> <<>>,
     manual |-> [given |-> FALSE], started |-> [given |-> FALSE]]

\* the chat server when a client has connected and opened a conversation:
\* no message stored, no handleChatMessage call made, no frame sent, the
\* socket open, the conversation under its initial title
ChatConstructed ==
    [stored |-> <<>>, calls |-> <<>>, sent |-> <<>>, open |-> TRUE,
     title |-> "New Conversation"]

\* how a call completed: it returned a value or raised an error
Return(v) == [given |-> TRUE, kind |-> "return", value |-> v]
Throw(e) == [given |-> TRUE, kind |-> "throw", value |-> e]

----------------------------------------------------------------------------
(* The registry, the Query Classifier and the Model Selector *)

\* the initial value of MultiModelCoordinator.models
Registry ==
    << [id |-> "gpt-4o", provider |-> "openai",
        category |-> "general", strength |-> "reasoning"],
       [id |-> "claude-3-7-sonnet-20250219", provider |-> "anthropic",
        category |-> "general", strength |-> "analysis"],
       [id |-> "deepseek-coder", provider |-> "deepseek",
        category |-> "code", strength |-> "programming"],
       [id |-> "grok-2-1212", provider |-> "grok",
        category |-> "realtime", strength |-> "current_events"],
       [id |-> "gemini-1.5-pro", provider |-> "gemini",
        category |-> "multimodal", strength |-> "vision"],
       [id |-> "llama-3.1-sonar-large-128k-online", provider |-> "perplexity",
        category |-> "search", strength |-> "research"] >>

Categories == {"code", "realtime", "search", "multimodal", "analysis", "general"}

IncludesAny(s, subs) == \E sub \in subs : Includes(s, sub)

\* (mutant) analyzeQueryType matching the query as written, not lower-cased
analyzeQueryTypeCaseSensitive(query) ==
    IF IncludesAny(query, {"code", "program", "debug", "function"})
    THEN "code"
    ELSE IF IncludesAny(query, {"current", "latest", "news", "recent"})
    THEN "realtime"
    ELSE IF IncludesAny(query, {"research", "search", "find", "information"})
    THEN "search"
    ELSE IF IncludesAny(query, {"image", "visual", "picture", "analyze"})
    THEN "multimodal"
    ELSE IF IncludesAny(query, {"analyze", "review", "explain", "compare"})
    THEN "analysis"
    ELSE "general"

analyzeQueryType(query) ==
    LET lowerQuery == ToLowerCase(query)
    IN  IF IncludesAny(lowerQuery, {"code", "program", "debug", "function"})
        THEN "code"
        ELSE IF IncludesAny(lowerQuery, {"current", "latest", "news", "recent"})
        THEN "realtime"
        ELSE IF IncludesAny(lowerQuery, {"research", "search", "find", "information"})
        THEN "search"
        ELSE IF IncludesAny(lowerQuery, {"image", "visual", "picture", "analyze"})
        THEN "multimodal"
        ELSE IF IncludesAny(lowerQuery, {"analyze", "review", "explain", "compare"})
        THEN "analysis"
        ELSE "general"

\* the aScore / bScore of the comparator selectModelsForQuery sorts with
Fitness(qType, m) ==
    CASE qType = "code" ->
            IF m.category = "code" THEN 3
            ELSE IF m.strength = "programming" THEN 2 ELSE 1
      [] qType = "realtime" ->
            IF m.category = "realtime" THEN 3
            ELSE IF m.category = "search" THEN 2 ELSE 1
      [] qType = "search" ->
            IF m.category = "search" THEN 3
            ELSE IF m.category = "realtime" THEN 2 ELSE 1
      [] qType = "multimodal" ->
            IF m.category = "multimodal" THEN 3
            ELSE IF m.strength = "vision" THEN 2 ELSE 1
      [] OTHER ->
            IF m.category = "general" THEN 2 ELSE 1

\* (mutant) selectModelsForQuery without the sort: the registry's first entries
selectModelsForQueryUnsorted(registry, qType, count) == Slice0(registry, count)

selectModelsForQuery(registry, qType, count) ==
    LET prioritizedModels == SortDescBy(registry, LAMBDA m : Fitness(qType, m))
    IN  Slice0(prioritizedModels, count)

\* (mutant) the selector sorts this.models itself
RegistryAfterSelectInPlace(registry, qType) ==
    SortDescBy(registry, LAMBDA m : Fitness(qType, m))

\* this.models after selectModelsForQuery: line 85 copies the registry
\* ([...this.models]) and every sort and the slice work on the copy
RegistryAfterSelect(registry, qType) == registry

\* (mutant) minModels read as a floor under the default of 3
MinModelsOrDefaultFloor(m) == IF ~m.given \/ m.value = 0 THEN 3 ELSE Max(m.value, 3)

\* options.minModels || 3
MinModelsOrDefault(m) == IF ~m.given \/ m.value = 0 THEN 3 ELSE m.value

\* the default value of getMultipleResponses' timeout parameter
TimeoutOrDefault(t) == IF ~t.given THEN 30000 ELSE t.value

\* messages[messages.length - 1]?.content || ''
LatestQuery(msgs) == IF msgs = <<>> THEN "" ELSE msgs[Len(msgs)].content

----------------------------------------------------------------------------
(* The Response Scorer *)

\* The fenced code block marker (three backquotes). A TLA+ string cannot hold
\* a backquote, so the texts of the model write the marker as three tildes.
Fence == "~~~"

\* (mutant) scoreResponse returning the accumulated score without the cap
scoreResponseUncapped(response, category, executionTime) ==
    50 + (IF Len(response) > 100 THEN 10 ELSE 0)
       + (IF Len(response) > 500 THEN 10 ELSE 0)
       + (IF Includes(response, Fence) THEN 15 ELSE 0)
       + (IF Includes(response, "http") THEN 5 ELSE 0)
       + (CASE category = "code" ->
                 IF IncludesAny(response, {"function", "class"}) THEN 20 ELSE 0
            [] category = "search" ->
                 IF IncludesAny(response, {"according to", "source"}) THEN 15 ELSE 0
            [] category = "realtime" ->
                 IF IncludesAny(response, {"2024", "2025"}) THEN 10 ELSE 0
            [] OTHER -> 0)
       + (IF executionTime < 5000 THEN 5 ELSE 0)
       + (IF executionTime < 2000 THEN 10 ELSE 0)

\* (mutant) scoreResponse with the two speed tests made exclusive
scoreResponseExclusiveSpeed(response, category, executionTime) ==
    Min(100, scoreResponseUncapped(response, category, executionTime)
             - (IF executionTime < 2000 THEN 5 ELSE 0))

scoreResponse(response, category, executionTime) ==
    LET base == 50
        len1 == IF Len(response) > 100 THEN 10 ELSE 0
        len2 == IF Len(response) > 500 THEN 10 ELSE 0
        code == IF Includes(response, Fence) THEN 15 ELSE 0
        refs == IF Includes(response, "http") THEN 5 ELSE 0
        bonus ==
            CASE category = "code" ->
                    IF IncludesAny(response, {"function", "class"}) THEN 20 ELSE 0
              [] category = "search" ->
                    IF IncludesAny(response, {"according to", "source"}) THEN 15 ELSE 0
              [] category = "realtime" ->
                    IF IncludesAny(response, {"2024", "2025"}) THEN 10 ELSE 0
              [] OTHER -> 0
        speed1 == IF executionTime < 5000 THEN 5 ELSE 0
        speed2 == IF executionTime < 2000 THEN 10 ELSE 0
    IN  Min(100, base + len1 + len2 + code + refs + bonus + speed1 + speed2)

----------------------------------------------------------------------------
(* The Reducer *)

Apology == "I apologize, but I'm unable to generate a response at the moment."

SeqToSet(arr) == {arr[i] : i \in 1..Len(arr)}

\* (mutant) the excerpt granted from a fifth of novel tokens on
extractUniqueInsightsFifth(main, additional) ==
    LET mainWords == SeqToSet(SplitWs(ToLowerCase(main)))
        additionalWords == SplitWs(ToLowerCase(additional))
        uniqueWords == SelectSeq(additionalWords, LAMBDA word : word \notin mainWords)
    IN  IF 10 * Len(uniqueWords) >= 2 * Len(SplitWs(additional))
        THEN Some(Substring(additional, 0, 200)
                  \o (IF Len(additional) > 200 THEN "..." ELSE ""))
        ELSE None

\* extractUniqueInsights: Some(excerpt), or None for null. The code compares
\* the count of novel tokens with length * 0.3; on integers that is
\* 10 * novel > 3 * length.

extractUniqueInsights(main, additional) ==
    LET mainWords == SeqToSet(SplitWs(ToLowerCase(main)))
        additionalWords == SplitWs(ToLowerCase(additional))
        uniqueWords == SelectSeq(additionalWords, LAMBDA word : word \notin mainWords)
    IN  IF 10 * Len(uniqueWords) > 3 * Len(SplitWs(additional))
        THEN Some(Substring(additional, 0, 200)
                  \o (IF Len(additional) > 200 THEN "..." ELSE ""))
        ELSE None

InsightLabel(modelId) == "\n\n**Additional Insight (" \o modelId \o "):** "

\* if (uniqueInsights): null and the empty string are both falsy
Truthy(opt) == opt.given /\ opt.value # ""

\* the loop of combineTopResponses from index i (1-based) on
RECURSIVE CombineFrom(_, _, _, _)
CombineFrom(rs, mainResponse, i, combined) ==
    IF i > Len(rs) THEN combined
    ELSE LET uniqueInsights == extractUniqueInsights(mainResponse, rs[i].response)
         IN  CombineFrom(rs, mainResponse, i + 1,
                 IF Truthy(uniqueInsights)
                 THEN combined \o InsightLabel(rs[i].modelId) \o uniqueInsights.value
                 ELSE combined)

combineTopResponses(rs) ==
    LET mainResponse == rs[1].response
    IN  IF Len(rs) = 1 THEN mainResponse
        ELSE CombineFrom(rs, mainResponse, 2, mainResponse)

\* arr.reduce((prev, current) => current.score > prev.score ? current : prev, init)
RECURSIVE ReduceMaxScore(_, _)
ReduceMaxScore(arr, init) ==
    IF arr = <<>> THEN init
    ELSE ReduceMaxScore(Tail(arr),
             IF Head(arr).score > init.score THEN Head(arr) ELSE init)

\* the same reduce without an initial value: a TypeError on an empty array
TypeError == [error |-> "TypeError"]

ReduceMaxScoreNoInit(arr) ==
    IF arr = <<>> THEN TypeError ELSE ReduceMaxScore(Tail(arr), Head(arr))

\* Each reducer gives how it completed (out) and the array it was handed as the
\* call leaves it (list): Array.prototype.sort sorts in place.
BestOf(rs) == ReduceMaxScoreNoInit(rs)

RunnerUpOf(rs) ==
    LET best == BestOf(rs)
    IN  ReduceMaxScore(SelectSeq(rs, LAMBDA r : r.modelId # best.modelId), rs[1])

\* (mutant) selectBestResponse merging the three highest-scored responses
selectBestResponseTop3(rs) ==
    IF Len(rs) = 0 THEN [out |-> Return(Apology), list |-> rs]
    ELSE [out |-> Return(combineTopResponses(
                      Slice0(SortDescBy(rs, LAMBDA r : r.score), 3))),
          list |-> rs]

\* (mutant) selectBestResponse without the check for an empty list
selectBestResponseNoGuard(rs) ==
    LET best == BestOf(rs)
    IN  IF best = TypeError THEN [out |-> Throw("TypeError"), list |-> rs]
        ELSE IF Abs(best.score - RunnerUpOf(rs).score) < 10
        THEN [out |-> Return(combineTopResponses(<<best, RunnerUpOf(rs)>>)), list |-> rs]
        ELSE [out |-> Return(best.response), list |-> rs]

selectBestResponse(rs) ==
    IF Len(rs) = 0 THEN [out |-> Return(Apology), list |-> rs]
    ELSE LET best == BestOf(rs)
             runner_up == RunnerUpOf(rs)
         IN  IF best = TypeError THEN [out |-> Throw("TypeError"), list |-> rs]
             ELSE IF Abs(best.score - runner_up.score) < 10
             THEN [out |-> Return(combineTopResponses(<<best, runner_up>>)), list |-> rs]
             ELSE [out |-> Return(best.response), list |-> rs]

\* (mutant) generateConsensusResponse with a sort that reverses equal scores
generateConsensusResponseTiesReversed(rs) ==
    IF Len(rs) = 0 THEN [out |-> Return(Apology), list |-> rs]
    ELSE IF Len(rs) = 1 THEN [out |-> Return(rs[1].response), list |-> rs]
    ELSE LET sorted == SortDescBy([i \in 1..Len(rs) |-> rs[Len(rs) + 1 - i]],
                                  LAMBDA r : r.score)
         IN  [out |-> Return(combineTopResponses(Slice0(sorted, 3))), list |-> sorted]

\* (mutant) generateConsensusResponse without the sort: the first three of the
\* list as it was handed in
generateConsensusResponseUnsorted(rs) ==
    IF Len(rs) = 0 THEN [out |-> Return(Apology), list |-> rs]
    ELSE IF Len(rs) = 1 THEN [out |-> Return(rs[1].response), list |-> rs]
    ELSE [out |-> Return(combineTopResponses(Slice0(rs, 3))), list |-> rs]

\* (mutant) generateConsensusResponse without the check for an empty list:
\* combineTopResponses reads responses[0].response of an empty array
generateConsensusResponseNoGuard(rs) ==
    IF Len(rs) = 0 THEN [out |-> Throw("TypeError"), list |-> rs]
    ELSE IF Len(rs) = 1 THEN [out |-> Return(rs[1].response), list |-> rs]
    ELSE LET sorted == SortDescBy(rs, LAMBDA r : r.score)
         IN  [out |-> Return(combineTopResponses(Slice0(sorted, 3))), list |-> sorted]

generateConsensusResponse(rs) ==
    IF Len(rs) = 0 THEN [out |-> Return(Apology), list |-> rs]
    ELSE IF Len(rs) = 1 THEN [out |-> Return(rs[1].response), list |-> rs]
    ELSE LET sorted == SortDescBy(rs, LAMBDA r : r.score)
             topResponses == Slice0(sorted, 3)
         IN  [out |-> Return(combineTopResponses(topResponses)), list |-> sorted]

ParallelEntry(r) ==
    "**" \o r.modelId \o " (Score: " \o ToString(r.score) \o "):**\n"
    \o r.response \o "\n\n"

RECURSIVE ConcatEntries(_)
ConcatEntries(rs) ==
    IF rs = <<>> THEN "" ELSE ParallelEntry(Head(rs)) \o ConcatEntries(Tail(rs))

\* (mutant) combineParallelResponses without the sort
combineParallelResponsesUnsorted(rs) ==
    IF Len(rs) = 0 THEN [out |-> Return(Apology), list |-> rs]
    ELSE [out |-> Return("**Comprehensive AI Analysis:**\n\n" \o ConcatEntries(rs)),
          list |-> rs]

combineParallelResponses(rs) ==
    IF Len(rs) = 0 THEN [out |-> Return(Apology), list |-> rs]
    ELSE LET sorted == SortDescBy(rs, LAMBDA r : r.score)
         IN  [out |-> Return("**Comprehensive AI Analysis:**\n\n" \o ConcatEntries(sorted)),
              list |-> sorted]

Strategies == {"best", "consensus", "parallel", "sequential"}

\* the switch of generateBestResponse
Reduce(strat, rs) ==
    CASE strat = "best" -> selectBestResponse(rs)
      [] strat = "consensus" -> generateConsensusResponse(rs)
      [] strat = "parallel" -> combineParallelResponses(rs)
      [] OTHER -> selectBestResponse(rs)

----------------------------------------------------------------------------
(* The Parallel Dispatcher: one task per selected model (lines 134-161) *)

Pending == [given |-> FALSE, kind |-> "pending"]

\* no second call in flight
NoPeer ==
    [pc |-> "idle", messages |-> <<>>, selectedModels |-> <<>>, race |-> <<>>,
     results |-> <<>>, responses |-> <<>>, strategy |-> NoValue, returned |-> None]

\* (mutant) the task without its catch: a rejection of the race rejects the task
TaskResultNoCatch(model, settled, executionTime) ==
    IF settled.kind = "return"
    THEN Return([modelId |-> model.id,
                 response |-> settled.value,
                 score |-> scoreResponse(settled.value, model.category, executionTime),
                 reasoning |-> model.strength \o " specialization",
                 executionTime |-> executionTime])
    ELSE Throw(settled.value)

\* (mutant) the catch scores the failure like an answer instead of giving it 0
TaskResultScoredFailure(model, settled, executionTime) ==
    LET text == IF settled.kind = "return" THEN settled.value ELSE ""
    IN  Return([modelId |-> model.id,
                response |-> text,
                score |-> scoreResponse(text, model.category, executionTime),
                reasoning |-> IF settled.kind = "return"
                              THEN model.strength \o " specialization"
                              ELSE "Error: " \o settled.value,
                executionTime |-> executionTime])

\* The body of the task of `model` (lines 135-160), given how Promise.race
\* settled (a returned text, or a rejection with a message) and the time that
\* took. The try block returns the scored response; the catch turns a
\* rejection into a returned failure record, so the task itself never rejects.
TaskResult(model, settled, executionTime) ==
    IF settled.kind = "return"
    THEN Return([modelId |-> model.id,
                 response |-> settled.value,
                 score |-> scoreResponse(settled.value, model.category, executionTime),
                 reasoning |-> model.strength \o " specialization",
                 executionTime |-> executionTime])
    ELSE Return([modelId |-> model.id,
                 response |-> "",
                 score |-> 0,
                 reasoning |-> "Error: " \o settled.value,
                 executionTime |-> executionTime])

\* (mutant) a race that follows its latest settlement
PromiseRaceLastWins(current, incoming) == incoming

\* Promise.race([provider call, timer]) (lines 137-140) when one of the two
\* settles: a promise settles once, so a settlement after the first is dropped
PromiseRace(current, incoming) == IF current = Pending THEN incoming ELSE current

\* (mutant) the tasks' results collected in a field of the instance, where the
\* settled results of another call in flight are found with the call's own
RoundResultsShared(own, other) == own \o SelectSeq(other, LAMBDA r : r # Pending)

\* `promises` (line 134) and `results` (line 163) are locals of the call of
\* getMultipleResponses: the call awaits its own tasks, whatever tasks another
\* call on the instance has in flight
RoundResults(own, other) == own

AllSettled(rs) == \A i \in 1..Len(rs) : rs[i] # Pending

\* (mutant) the tasks' values in the order the tasks completed, the quickest
\* first, as if each task pushed its result onto a shared list
PromiseAllInCompletionOrder(rs) ==
    IF \E i \in 1..Len(rs) : rs[i].kind = "throw"
    THEN rs[CHOOSE i \in 1..Len(rs) :
                /\ rs[i].kind = "throw"
                /\ \A j \in 1..(i - 1) : rs[j].kind # "throw"]
    ELSE Return(SortDescBy([i \in 1..Len(rs) |-> rs[i].value],
                           LAMBDA r : 0 - r.executionTime))

\* await Promise.all(promises): the tasks' values in selection order, or the
\* rejection of the first task (in that order) that rejected
PromiseAll(rs) ==
    IF \E i \in 1..Len(rs) : rs[i].kind = "throw"
    THEN rs[CHOOSE i \in 1..Len(rs) :
                /\ rs[i].kind = "throw"
                /\ \A j \in 1..(i - 1) : rs[j].kind # "throw"]
    ELSE Return([i \in 1..Len(rs) |-> rs[i].value])

\* (mutant) the filter applied to the results taken twice over
FilterResponsesDoubled(rs) == SelectSeq(rs \o rs, LAMBDA r : Len(r.response) > 0)

\* (mutant) the filter keeping what was scored above 0 instead of what has text
FilterResponsesByScore(rs) == SelectSeq(rs, LAMBDA r : r.score > 0)

\* (mutant) no filter: every task's record is handed on
FilterResponsesKeepAll(rs) == rs

\* results.filter(r => r.response.length > 0)
FilterResponses(rs) == SelectSeq(rs, LAMBDA r : Len(r.response) > 0)

\* lines 163-164: what getMultipleResponses completes with
getMultipleResponses(rs) ==
    LET all == PromiseAll(rs)
    IN  IF all.kind = "throw" THEN all ELSE Return(FilterResponses(all.value))

----------------------------------------------------------------------------
(* Provider adapters *)

ProviderLabel(provider) ==
    CASE provider = "openai" -> "OpenAI"
      [] provider = "anthropic" -> "Anthropic"
      [] provider = "deepseek" -> "DeepSeek"
      [] provider = "grok" -> "Grok"
      [] provider = "gemini" -> "Gemini"
      [] provider = "perplexity" -> "Perplexity"

\* the adapters whose generateResponse hands streaming options on to a
\* generateStreamingResponse; GeminiProvider and PerplexityProvider take the
\* parameter and never read it
StreamingAdapters == {"openai", "anthropic", "deepseek", "grok"}

ApiError(provider, msg) == ProviderLabel(provider) \o " API error: " \o msg
StreamingError(provider, msg) == ProviderLabel(provider) \o " streaming error: " \o msg

----------------------------------------------------------------------------
(* The Streaming Bridge: the callbacks generateStreamingConsensus hands to the
   adapter (lines 283-291) and its catch (line 295) *)

Event(cb, arg) == [cb |-> cb, arg |-> arg]

\* (mutant) the bridge's onChunk calls the caller's twice
BridgeOnChunkTwice(log, chunk) ==
    Append(Append(log, Event("onChunk", chunk)), Event("onChunk", chunk))

BridgeOnChunk(log, chunk) == Append(log, Event("onChunk", chunk))
BridgeOnComplete(log) == Append(log, Event("onComplete", ""))
\* (mutant) the bridge swallows the failure
BridgeOnErrorDropped(log, msg) == log

BridgeOnError(log, msg) == Append(log, Event("onError", msg))

\* the body of the adapter's for-await loop for one delta of the SDK stream
AdapterOnDelta(log, content) ==
    IF content # "" THEN BridgeOnChunk(log, content) ELSE log

\* the adapter's options.onComplete() after the loop
AdapterOnEnd(log) == BridgeOnComplete(log)

\* (mutant) the adapter's catch reports the error and throws it again, so the
\* catch of generateStreamingConsensus reports it a second time
AdapterOnFailureRethrown(log, provider, msg) ==
    BridgeOnError(BridgeOnError(log, StreamingError(provider, msg)),
                  StreamingError(provider, msg))

\* the adapter's catch: options.onError(new Error(...))
AdapterOnFailure(log, provider, msg) ==
    BridgeOnError(log, StreamingError(provider, msg))

----------------------------------------------------------------------------
(* Inputs *)

Turn(role, content) == [role |-> role, content |-> content]

Histories ==
    { <<>>,
      << Turn("user", "Please debug this function") >>,
      << Turn("user", "What's the latest news today?") >>,
      << Turn("system", "Be brief"), Turn("user", "Find papers on whales") >> ,
      << Turn("user", "Describe this picture") >>,
      << Turn("user", "Explain and compare both") >>,
      << Turn("user", "Please debug this function"),
         Turn("assistant", "Sure, which one?") >> }

MinModelsValues ==
    {None} \cup {Some(k) : k \in (0..MaxMinModels) \cup {-Len(Registry), 1 - Len(Registry)}}

\* a timeout of 5 s leaves the slower of ExecTimes no time to answer
Timeouts == {None, Some(5000)}

\* what a provider returns: a text, or "" (content missing in the reply)
ResponseTexts == {"", "function http 2024 source"}

\* milliseconds a provider call takes to settle
ExecTimes == {1500, 6000}

UpstreamErrors == {"rate limited"}

\* the deltas a provider SDK's stream yields; "" is a delta without content
Deltas == {"", "a", "b"}

----------------------------------------------------------------------------
(* generateBestResponse *)

Init ==
    /\ models = Registry
    /\ pc = "idle"
    /\ messages = <<>>
    /\ minModels = None
    /\ timeout = None
    /\ strategy = NoValue
    /\ streaming = FALSE
    /\ queryType = NoValue
    /\ selectedModels = <<>>
    /\ invoked = <<>>
    /\ race = <<>>
    /\ results = <<>>
    /\ responses = <<>>
    /\ returned = None
    /\ streamPhase = "none"
    /\ emitted = <<>>
    /\ callerLog = <<>>
    /\ cands = <<>>
    /\ reduced = None
    /\ probe = None
    /\ late = <<>>
    /\ peer = NoPeer
    /\ agent = AgentConstructed
    /\ chat = ChatConstructed

\* lines 38-42
Classify(msgs) == analyzeQueryType(LatestQuery(msgs))
Select(msgs, mm) ==
    selectModelsForQuery(models, Classify(msgs), MinModelsOrDefault(mm))

Ids(ms) == [i \in 1..Len(ms) |-> ms[i].id]

\* A non-streaming call: lines 38-48 and the synchronous part of
\* getMultipleResponses, which calls every selected provider (line 138).
StartDispatch(msgs, mm, to) ==
    /\ pc = "idle"
    /\ messages' = msgs
    /\ minModels' = mm
    /\ timeout' = to
    /\ streaming' = FALSE
    /\ queryType' = Classify(msgs)
    /\ selectedModels' = Select(msgs, mm)
    /\ invoked' = Ids(selectedModels')
    /\ race' = [i \in 1..Len(selectedModels') |-> Pending]
    /\ results' = [i \in 1..Len(selectedModels') |-> Pending]
    /\ pc' = "dispatching"
    /\ models' = RegistryAfterSelect(models, Classify(msgs))
    /\ late' = [i \in 1..Len(selectedModels') |-> Pending]
    /\ UNCHANGED <<strategy, responses, returned, streamPhase, emitted,
                   callerLog, cands, reduced, probe, peer, agent, chat>>

\* Promise.race of task i settles and the rest of the task's body runs
Settle(i, settled, t) ==
    /\ race' = [race EXCEPT ![i] = PromiseRace(race[i], settled)]
    /\ results' = [results EXCEPT ![i] = TaskResult(selectedModels[i], settled, t)]
    /\ UNCHANGED <<models, pc, messages, minModels, timeout, strategy, streaming,
                   queryType, selectedModels, invoked, responses, returned,
                   streamPhase, emitted, callerLog, cands, reduced, probe, late,
                   peer, agent, chat>>

\* the provider of task i answers before the timer fires
ProviderAnswers(i, text, t) ==
    /\ pc = "dispatching"
    /\ i \in 1..Len(results)
    /\ results[i] = Pending
    /\ t < TimeoutOrDefault(timeout)
    /\ Settle(i, Return(text), t)

\* the provider of task i throws before the timer fires
ProviderThrows(i, msg, t) ==
    /\ pc = "dispatching"
    /\ i \in 1..Len(results)
    /\ results[i] = Pending
    /\ t < TimeoutOrDefault(timeout)
    /\ Settle(i, Throw(ApiError(selectedModels[i].provider, msg)), t)

\* the timer of task i fires first: reject(new Error('Timeout'))
TimeoutFires(i) ==
    /\ pc = "dispatching"
    /\ i \in 1..Len(results)
    /\ results[i] = Pending
    /\ Settle(i, Throw("Timeout"), TimeoutOrDefault(timeout))

\* Promise.all has settled: lines 163-164, then the switch of line 50 reads
\* options.strategy. A rejection of the await propagates to the caller.
Complete(strat) ==
    /\ pc = "dispatching"
    /\ AllSettled(results)
    /\ LET got == getMultipleResponses(RoundResults(results, peer.results))
       IN  IF got.kind = "throw"
           THEN /\ responses' = responses
                /\ strategy' = strategy
                /\ returned' = got
           ELSE /\ responses' = got.value
                /\ strategy' = strat
                /\ returned' = Reduce(strat, got.value).out
    /\ pc' = "done"
    /\ UNCHANGED <<models, messages, minModels, timeout, streaming, queryType,
                   selectedModels, invoked, race, results, streamPhase, emitted,
                   callerLog, cands, reduced, probe, late,
                   peer, agent, chat>>

\* A streaming call: lines 38-45 and generateStreamingConsensus up to the
\* adapter's first await. With an empty selection primaryModel is undefined,
\* reading primaryModel.provider throws a TypeError and the catch reports it.
StartStreaming(msgs, mm, strat) ==
    /\ pc = "idle"
    /\ messages' = msgs
    /\ minModels' = mm
    /\ strategy' = strat
    /\ streaming' = TRUE
    /\ queryType' = Classify(msgs)
    /\ selectedModels' = Select(msgs, mm)
    /\ IF selectedModels' = <<>>
       THEN /\ invoked' = <<>>
            /\ callerLog' = BridgeOnError(callerLog, "TypeError")
            /\ returned' = Return("")
            /\ streamPhase' = "none"
            /\ pc' = "done"
       ELSE /\ invoked' = <<selectedModels'[1].id>>
            /\ callerLog' = callerLog
            /\ returned' = returned
            /\ streamPhase' =
                   IF selectedModels'[1].provider \in StreamingAdapters
                   THEN "opening" ELSE "fetching"
            /\ pc' = "streaming"
    /\ models' = RegistryAfterSelect(models, Classify(msgs))
    /\ UNCHANGED <<timeout, race, results, responses, emitted, cands,
                   reduced, probe, late,
                   peer, agent, chat>>

Primary == selectedModels[1]

\* the SDK's create({stream: true}) resolves
StreamOpens ==
    /\ pc = "streaming" /\ streamPhase = "opening"
    /\ streamPhase' = "iterating"
    /\ UNCHANGED <<models, pc, messages, minModels, timeout, strategy, streaming,
                   queryType, selectedModels, invoked, race, results, responses,
                   returned, emitted, callerLog, cands, reduced, probe, late,
                   peer, agent, chat>>

\* the SDK's create({stream: true}) rejects
StreamOpenFails(msg) ==
    /\ pc = "streaming" /\ streamPhase = "opening"
    /\ callerLog' = AdapterOnFailure(callerLog, Primary.provider, msg)
    /\ streamPhase' = "refused"
    /\ returned' = Return("")
    /\ pc' = "done"
    /\ UNCHANGED <<models, messages, minModels, timeout, strategy, streaming,
                   queryType, selectedModels, invoked, race, results, responses,
                   emitted, cands, reduced, probe, late,
                   peer, agent, chat>>

\* the stream yields one delta
StreamDelta(content) ==
    /\ pc = "streaming" /\ streamPhase = "iterating"
    /\ Len(emitted) < MaxChunks
    /\ emitted' = Append(emitted, content)
    /\ callerLog' = AdapterOnDelta(callerLog, content)
    /\ UNCHANGED <<models, pc, messages, minModels, timeout, strategy, streaming,
                   queryType, selectedModels, invoked, race, results, responses,
                   returned, streamPhase, cands, reduced, probe, late,
                   peer, agent, chat>>

\* the stream ends
StreamEnds ==
    /\ pc = "streaming" /\ streamPhase = "iterating"
    /\ callerLog' = AdapterOnEnd(callerLog)
    /\ streamPhase' = "ended"
    /\ returned' = Return("")
    /\ pc' = "done"
    /\ UNCHANGED <<models, messages, minModels, timeout, strategy, streaming,
                   queryType, selectedModels, invoked, race, results, responses,
                   emitted, cands, reduced, probe, late,
                   peer, agent, chat>>

\* the stream fails while it is iterated
StreamFails(msg) ==
    /\ pc = "streaming" /\ streamPhase = "iterating"
    /\ callerLog' = AdapterOnFailure(callerLog, Primary.provider, msg)
    /\ streamPhase' = "broken"
    /\ returned' = Return("")
    /\ pc' = "done"
    /\ UNCHANGED <<models, messages, minModels, timeout, strategy, streaming,
                   queryType, selectedModels, invoked, race, results, responses,
                   emitted, cands, reduced, probe, late,
                   peer, agent, chat>>

\* an adapter that ignores the streaming options returns its text: the bridge
\* drops the value and returns '' (line 293)
FetchReturns(text) ==
    /\ pc = "streaming" /\ streamPhase = "fetching"
    /\ streamPhase' = "fetched"
    /\ returned' = Return("")
    /\ pc' = "done"
    /\ UNCHANGED <<models, messages, minModels, timeout, strategy, streaming,
                   queryType, selectedModels, invoked, race, results, responses,
                   emitted, callerLog, cands, reduced, probe, late,
                   peer, agent, chat>>

\* an adapter that ignores the streaming options throws: the catch of line 294
FetchThrows(msg) ==
    /\ pc = "streaming" /\ streamPhase = "fetching"
    /\ callerLog' = BridgeOnError(callerLog, ApiError(Primary.provider, msg))
    /\ streamPhase' = "threw"
    /\ returned' = Return("")
    /\ pc' = "done"
    /\ UNCHANGED <<models, messages, minModels, timeout, strategy, streaming,
                   queryType, selectedModels, invoked, race, results, responses,
                   emitted, cands, reduced, probe, late,
                   peer, agent, chat>>

\* the caller has its answer; the coordinator is ready for the next call
Finish ==
    /\ pc = "done"
    /\ pc' = "idle"
    /\ messages' = <<>>
    /\ minModels' = None
    /\ timeout' = None
    /\ strategy' = NoValue
    /\ streaming' = FALSE
    /\ queryType' = NoValue
    /\ selectedModels' = <<>>
    /\ invoked' = <<>>
    /\ race' = <<>>
    /\ results' = <<>>
    /\ responses' = <<>>
    /\ returned' = None
    /\ streamPhase' = "none"
    /\ emitted' = <<>>
    /\ callerLog' = <<>>
    /\ late' = <<>>
    /\ UNCHANGED <<models, cands, reduced, probe, peer, agent, chat>>

Next ==
    \/ \E msgs \in Histories, mm \in MinModelsValues, to \in Timeouts :
           StartDispatch(msgs, mm, to)
    \/ \E i \in 1..Len(Registry), text \in ResponseTexts, t \in ExecTimes :
           ProviderAnswers(i, text, t)
    \/ \E i \in 1..Len(Registry), msg \in UpstreamErrors, t \in ExecTimes :
           ProviderThrows(i, msg, t)
    \/ \E i \in 1..Len(Registry) : TimeoutFires(i)
    \/ \E strat \in Strategies : Complete(strat)
    \/ \E msgs \in Histories, mm \in MinModelsValues, strat \in Strategies :
           StartStreaming(msgs, mm, strat)
    \/ StreamOpens
    \/ \E msg \in UpstreamErrors : StreamOpenFails(msg)
    \/ \E content \in Deltas : StreamDelta(content)
    \/ StreamEnds
    \/ \E msg \in UpstreamErrors : StreamFails(msg)
    \/ \E text \in ResponseTexts : FetchReturns(text)
    \/ \E msg \in UpstreamErrors : FetchThrows(msg)
    \/ Finish

Spec == Init /\ [][Next]_vars

\* The event loop runs a due timer and resumes a settled await: a timer set
\* by line 139 fires unless its task has settled, and once every task has
\* settled the await of line 163 is resumed, which is the step of Complete,
\* the only step of Next that takes pc from "dispatching" to "done". Nothing is
\* assumed of the providers.
TimerFires == \E i \in 1..Len(Registry) : TimeoutFires(i)
AwaitResumes == pc = "dispatching" /\ AllSettled(results) /\ pc' = "done"

FairSpec == Spec /\ WF_vars(TimerFires) /\ WF_pc(AwaitResumes)

----------------------------------------------------------------------------
(* The reducers as functions of a candidate list: selectBestResponse,
   generateConsensusResponse and combineParallelResponses applied to lists of
   Model Responses in every order *)

RECURSIVE Repeat(_, _)
Repeat(s, n) == IF n = 0 THEN "" ELSE s \o Repeat(s, n - 1)

\* a short text, and a text of more than 200 characters that starts with it
ShortText == "alpha beta gamma delta"
LongText == ShortText \o " " \o Repeat("omega-omega-omega-omega-omega-omega ", 5) \o "end"

CandTexts == {ShortText, LongText}
CandScores == {70, 74, 80}
\* The lists of at most MaxCands responses of different providers, with every
\* text and score at every position. The provider at position i is the i-th of
\* the registry: the reducers only compare model ids for equality and print
\* them, so which provider sits where changes nothing but the labels.
CandResponse(i, text, score) ==
    [modelId |-> Registry[i].id, response |-> text, score |-> score,
     reasoning |-> Registry[i].strength \o " specialization",
     executionTime |-> 1500]

ListOrders(n) ==
    {f \in [1..n -> 1..n] : \A i, j \in 1..n : i # j => f[i] # f[j]}

\* MaxCands + 1 responses with different scores 4 points apart: a short text
\* with the highest score and the long text with every other score
WideCand(k) == IF k = 1 THEN <<ShortText, 80>> ELSE <<LongText, 80 - 4 * (k - 1)>>

\* those responses in every list order
WideLists ==
    { [i \in 1..(MaxCands + 1) |-> CandResponse(i, WideCand(f[i])[1], WideCand(f[i])[2])] :
        f \in ListOrders(MaxCands + 1) }

CandidateLists ==
    UNION { { [i \in 1..n |-> CandResponse(i, l[i][1], l[i][2])] :
                l \in [1..n -> CandTexts \X CandScores] }
            : n \in 0..MaxCands }
    \cup WideLists

ReducerInit ==
    /\ models = Registry
    /\ pc = "idle"
    /\ messages = <<>>
    /\ minModels = None
    /\ timeout = None
    /\ strategy = NoValue
    /\ streaming = FALSE
    /\ queryType = NoValue
    /\ selectedModels = <<>>
    /\ invoked = <<>>
    /\ race = <<>>
    /\ results = <<>>
    /\ responses = <<>>
    /\ returned = None
    /\ streamPhase = "none"
    /\ emitted = <<>>
    /\ callerLog = <<>>
    /\ cands \in CandidateLists
    /\ reduced = None
    /\ probe = None
    /\ late = <<>>
    /\ peer = NoPeer
    /\ agent = AgentConstructed
    /\ chat = ChatConstructed

\* one call of a reducer on cands: what it was handed, what it returned, and
\* the array as the call leaves it
Apply(name, call) ==
    /\ reduced' = [given |-> TRUE, reducer |-> name, input |-> cands, out |-> call.out]
    /\ cands' = call.list
    /\ UNCHANGED <<models, pc, messages, minModels, timeout, strategy, streaming,
                   queryType, selectedModels, invoked, race, results, responses,
                   returned, streamPhase, emitted, callerLog, probe, late,
                   peer, agent, chat>>

ApplyBest == Apply("best", selectBestResponse(cands))
ApplyConsensus == Apply("consensus", generateConsensusResponse(cands))
ApplyParallel == Apply("parallel", combineParallelResponses(cands))

ReducerNext == ApplyBest \/ ApplyConsensus \/ ApplyParallel

ReducerSpec == ReducerInit /\ [][ReducerNext]_vars

-----------------------------------------------------------------------------
(* The reducers on lists of two or three responses with different scores,
   whose texts are ten tokens long and share ten, eight, seven, six or none
   of them with MainText, in either case and with repeated tokens. *)

MainText == "a b c d e f g h i j"

NoveltyTexts ==
    { MainText,
      "A B C D E F G H I J",
      "a b c d e f g h x y",
      "a b c d e f g x y z",
      "a b c d e f g x x x",
      "a b c d e f w x y z",
      "q r s t u v w x y z" }

InsightScores == <<80, 76, 72>>

InsightLists ==
    UNION { { [i \in 1..n |-> CandResponse(i, texts[i], InsightScores[f[i]])] :
                texts \in [1..n -> NoveltyTexts], f \in ListOrders(n) }
            : n \in 2..3 }

InsightInit ==
    /\ models = Registry
    /\ pc = "idle"
    /\ messages = <<>>
    /\ minModels = None
    /\ timeout = None
    /\ strategy = NoValue
    /\ streaming = FALSE
    /\ queryType = NoValue
    /\ selectedModels = <<>>
    /\ invoked = <<>>
    /\ race = <<>>
    /\ results = <<>>
    /\ responses = <<>>
    /\ returned = None
    /\ streamPhase = "none"
    /\ emitted = <<>>
    /\ callerLog = <<>>
    /\ cands \in InsightLists
    /\ reduced = None
    /\ probe = None
    /\ late = <<>>
    /\ peer = NoPeer
    /\ agent = AgentConstructed
    /\ chat = ChatConstructed

InsightSpec == InsightInit /\ [][ReducerNext]_vars

-----------------------------------------------------------------------------
(* The AutonomousAgent (openai.ts lines 152-618): startAutonomousMode,
   stopAutonomousMode, the autonomousCycle loops and executeImprovement. A
   loop is an autonomousCycle invocation that has not returned; between two
   awaits its code runs without interruption. *)

\* alive autonomousCycle loops the model follows at once
MaxLoops == 2

\* the awaited steps of executeImprovement's try block, in order
Steps ==
    <<"createBranch", "generateImplementationPlan", "implementChanges",
      "testChanges", "commitAndPush">>

StepIndex(step) == CHOOSE i \in 1..Len(Steps) : Steps[i] = step

\* implementChanges awaits nothing and only logs: it cannot reject
CanReject(step) == step # "implementChanges"

\* createTask, and the literal of manualImprovement: a task is born pending
\* and without completedAt
NewTask == [status |-> "pending", completedAt |-> FALSE]

\* executeImprovement up to its first await (lines 288-296): the task is
\* 'implementing' and createBranch is awaited. failed lists the steps that
\* rejected so far.
ExecutionStarted(task) ==
    [status |-> "implementing", completedAt |-> task.completedAt,
     step |-> Steps[1], failed |-> {}, outcome |-> None]

\* (mutant) executeImprovement without its catch: the rejection of a step
\* rejects the call and the task stays 'implementing'
OnStepRejectedNoCatch(run) ==
    [run EXCEPT !.failed = @ \cup {run.step},
                !.step = "returned",
                !.outcome = Throw("step failed")]

\* the catch of executeImprovement (lines 314-317)
OnStepRejected(run) ==
    [run EXCEPT !.failed = @ \cup {run.step},
                !.status = "failed",
                !.step = "returned",
                !.outcome = Return(NoValue)]

\* the awaited step settles. testChanges catches the failure of npm test
\* itself (lines 475-481), so it resolves either way; after commitAndPush the
\* task is completed (lines 309-310).
StepSettles(run, ok) ==
    IF ~ok /\ run.step # "testChanges"
    THEN OnStepRejected(run)
    ELSE LET seen == IF ok THEN run.failed ELSE run.failed \cup {run.step}
         IN  IF run.step = Steps[Len(Steps)]
             THEN [run EXCEPT !.failed = seen,
                              !.status = "completed",
                              !.completedAt = TRUE,
                              !.step = "returned",
                              !.outcome = Return(NoValue)]
             ELSE [run EXCEPT !.failed = seen,
                              !.step = Steps[StepIndex(run.step) + 1]]

RemoveAt(s, k) == SubSeq(s, 1, k - 1) \o SubSeq(s, k + 1, Len(s))

OnlyAgentChanges ==
    UNCHANGED <<models, pc, messages, minModels, timeout, strategy, streaming,
                queryType, selectedModels, invoked, race, results, responses,
                returned, streamPhase, emitted, callerLog, cands, reduced, probe,
                late, peer, chat>>

\* startAutonomousMode (lines 170-180): it throws when the agent is active;
\* otherwise it sets isActive and calls autonomousCycle, which tests the flag
\* and runs up to the await of analyzeFullPlatform
StartAutonomousMode ==
    /\ IF agent.isActive
       THEN agent' = [agent EXCEPT !.started = Throw("Agent is already active")]
       ELSE /\ Len(agent.loops) < MaxLoops
            /\ agent' = [agent EXCEPT
                            !.isActive = TRUE,
                            !.loops = Append(@, [pc |-> "analyzing", run |-> None]),
                            !.started = Return(NoValue)]
    /\ OnlyAgentChanges

\* stopAutonomousMode (lines 182-185)
StopAutonomousMode ==
    /\ agent' = [agent EXCEPT !.isActive = FALSE]
    /\ OnlyAgentChanges

\* analyzeFullPlatform resolves: identifyImprovements is awaited (line 194)
AnalysisResolves(k) ==
    /\ k \in 1..Len(agent.loops)
    /\ agent.loops[k].pc = "analyzing"
    /\ agent' = [agent EXCEPT !.loops[k].pc = "identifying"]
    /\ OnlyAgentChanges

\* analyzeFullPlatform rejects (reading the project files fails): the catch
\* of the loop sleeps 5 minutes (lines 207-210)
AnalysisRejects(k) ==
    /\ k \in 1..Len(agent.loops)
    /\ agent.loops[k].pc = "analyzing"
    /\ agent' = [agent EXCEPT !.loops[k].pc = "backoff"]
    /\ OnlyAgentChanges

\* identifyImprovements and selectNextTask resolve (lines 194-202): with a
\* task executeImprovement is entered, without one the loop sleeps 30 minutes
ImprovementsIdentified(k, hasTask) ==
    /\ k \in 1..Len(agent.loops)
    /\ agent.loops[k].pc = "identifying"
    /\ agent' = IF hasTask
                THEN [agent EXCEPT !.currentTask = "autonomous",
                                   !.loops[k] = [pc |-> "executing",
                                                 run |-> Some(ExecutionStarted(NewTask))]]
                ELSE [agent EXCEPT !.loops[k].pc = "sleeping"]
    /\ OnlyAgentChanges

\* the step the loop's executeImprovement awaits settles
LoopStepSettles(k, ok) ==
    /\ k \in 1..Len(agent.loops)
    /\ agent.loops[k].pc = "executing"
    /\ agent.loops[k].run.value.step # "returned"
    /\ ok \/ CanReject(agent.loops[k].run.value.step)
    /\ agent' = [agent EXCEPT
                    !.loops[k].run = Some(StepSettles(agent.loops[k].run.value, ok))]
    /\ OnlyAgentChanges

\* executeImprovement has completed: the loop sleeps 30 minutes, or 5 in its
\* catch had the call rejected
ExecutionReturns(k) ==
    /\ k \in 1..Len(agent.loops)
    /\ agent.loops[k].pc = "executing"
    /\ agent.loops[k].run.value.step = "returned"
    /\ agent' = [agent EXCEPT
                    !.loops[k] =
                        [pc |-> IF agent.loops[k].run.value.outcome.kind = "return"
                                THEN "sleeping" ELSE "backoff",
                         run |-> None]]
    /\ OnlyAgentChanges

\* the sleep is over: while (this.isActive) is tested again (line 188)
SleepEnds(k) ==
    /\ k \in 1..Len(agent.loops)
    /\ agent.loops[k].pc \in {"sleeping", "backoff"}
    /\ agent' = IF agent.isActive
                THEN [agent EXCEPT !.loops[k].pc = "analyzing"]
                ELSE [agent EXCEPT !.loops = RemoveAt(@, k)]
    /\ OnlyAgentChanges

\* manualImprovement (lines 594-607) up to the first await of
\* executeImprovement; one request is followed at a time
ManualImprovement ==
    /\ ~agent.manual.given
    /\ agent' = [agent EXCEPT !.currentTask = "manual",
                              !.manual = Some(ExecutionStarted(NewTask))]
    /\ OnlyAgentChanges

ManualStepSettles(ok) ==
    /\ agent.manual.given
    /\ agent.manual.value.step # "returned"
    /\ ok \/ CanReject(agent.manual.value.step)
    /\ agent' = [agent EXCEPT !.manual = Some(StepSettles(agent.manual.value, ok))]
    /\ OnlyAgentChanges

\* manualImprovement has completed and the route has answered
ManualReturns ==
    /\ agent.manual.given
    /\ agent.manual.value.step = "returned"
    /\ agent' = [agent EXCEPT !.manual = None]
    /\ OnlyAgentChanges

LoopProgress ==
    \E k \in 1..MaxLoops :
        \/ AnalysisResolves(k)
        \/ AnalysisRejects(k)
        \/ \E hasTask \in BOOLEAN : ImprovementsIdentified(k, hasTask)
        \/ \E ok \in BOOLEAN : LoopStepSettles(k, ok)
        \/ ExecutionReturns(k)
        \/ SleepEnds(k)

AgentNext ==
    \/ StartAutonomousMode
    \/ StopAutonomousMode
    \/ \E k \in 1..MaxLoops : AnalysisResolves(k)
    \/ \E k \in 1..MaxLoops : AnalysisRejects(k)
    \/ \E k \in 1..MaxLoops, hasTask \in BOOLEAN : ImprovementsIdentified(k, hasTask)
    \/ \E k \in 1..MaxLoops, ok \in BOOLEAN : LoopStepSettles(k, ok)
    \/ \E k \in 1..MaxLoops : ExecutionReturns(k)
    \/ \E k \in 1..MaxLoops : SleepEnds(k)

AgentSpec == Init /\ [][AgentNext]_vars

\* Every timer set by sleep fires and every awaited operation of a loop
\* settles: a loop that can take a step eventually takes one.
AgentFairSpec == AgentSpec /\ WF_vars(LoopProgress)

\* manual improvement requests beside an agent that is started only when no
\* loop is alive
ImproveNext ==
    \/ (agent.loops = <<>> /\ StartAutonomousMode)
    \/ StopAutonomousMode
    \/ \E k \in 1..MaxLoops : AnalysisResolves(k)
    \/ \E k \in 1..MaxLoops : AnalysisRejects(k)
    \/ \E k \in 1..MaxLoops, hasTask \in BOOLEAN : ImprovementsIdentified(k, hasTask)
    \/ \E k \in 1..MaxLoops, ok \in BOOLEAN : LoopStepSettles(k, ok)
    \/ \E k \in 1..MaxLoops : ExecutionReturns(k)
    \/ \E k \in 1..MaxLoops : SleepEnds(k)
    \/ ManualImprovement
    \/ \E ok \in BOOLEAN : ManualStepSettles(ok)
    \/ ManualReturns

ImproveSpec == Init /\ [][ImproveNext]_vars


----------------------------------------------------------------------------
(* scoreResponse as a function of its arguments, and the score a task of the
   dispatcher records for each way its provider call can settle *)

\* 50 characters that hold none of the words scoreResponse looks for
Block == "abcdefghij abcdefghij abcdefghij abcdefghij abcde "

Marks == " ~~~ http function source 2024"

\* texts on both sides of the two length thresholds, texts with one marker
\* each, and texts with all of them
ScoreTexts ==
    { "", "ok",
      Repeat(Block, 2), Repeat(Block, 2) \o "x",
      Repeat(Block, 10), Repeat(Block, 10) \o "x",
      "~~~js~~~", "see http://a.b", "function f", "class A",
      "according to B", "source: C", "in 2024", "in 2025",
      Repeat(Block, 2) \o Marks, Repeat(Block, 10) \o Marks }

\* milliseconds on both sides of the two speed thresholds
ScoreTimes == {0, 1999, 2000, 4999, 5000, 30000}

SettledWays ==
    {Return(text) : text \in {"", "ok", Repeat(Block, 2) \o Marks}}
    \cup {Throw("Timeout")}
    \cup {Throw(ApiError(m, e)) : m \in {"openai"}, e \in UpstreamErrors}

ScoreArgs ==
    [response : ScoreTexts, category : Categories, executionTime : ScoreTimes]

TaskArgs ==
    [model : 1..Len(Registry), settled : SettledWays, executionTime : {1999, 30000}]

\* every variable but probe, as the constructor leaves it
NoCall ==
    /\ models = Registry
    /\ pc = "idle"
    /\ messages = <<>>
    /\ minModels = None
    /\ timeout = None
    /\ strategy = NoValue
    /\ streaming = FALSE
    /\ queryType = NoValue
    /\ selectedModels = <<>>
    /\ invoked = <<>>
    /\ race = <<>>
    /\ results = <<>>
    /\ responses = <<>>
    /\ returned = None
    /\ streamPhase = "none"
    /\ emitted = <<>>
    /\ callerLog = <<>>
    /\ cands = <<>>
    /\ reduced = None
    /\ late = <<>>
    /\ peer = NoPeer
    /\ agent = AgentConstructed
    /\ chat = ChatConstructed

NoCallChanged ==
    UNCHANGED <<models, pc, messages, minModels, timeout, strategy, streaming,
                queryType, selectedModels, invoked, race, results, responses,
                returned, streamPhase, emitted, callerLog, cands, reduced, late,
                peer, agent, chat>>

Asked(fn, args) == [fn |-> fn, args |-> args, done |-> FALSE]
Answer(p, out) == [fn |-> p.fn, args |-> p.args, done |-> TRUE, out |-> out]

ScorerInit ==
    /\ NoCall
    /\ probe \in {Asked("scoreResponse", a) : a \in ScoreArgs}
                 \cup {Asked("task", a) : a \in TaskArgs}

ApplyScore ==
    /\ probe.fn = "scoreResponse"
    /\ ~probe.done
    /\ probe' = Answer(probe, scoreResponse(probe.args.response, probe.args.category,
                                            probe.args.executionTime))
    /\ NoCallChanged

ApplyTask ==
    /\ probe.fn = "task"
    /\ ~probe.done
    /\ probe' = Answer(probe, TaskResult(models[probe.args.model], probe.args.settled,
                                         probe.args.executionTime))
    /\ NoCallChanged

ScorerNext == ApplyScore \/ ApplyTask

ScorerSpec == ScorerInit /\ [][ScorerNext]_vars

----------------------------------------------------------------------------
(* analyzeQueryType as a function of the query text *)

\* the words analyzeQueryType looks for
Keywords ==
    {"code", "program", "debug", "function", "current", "latest", "news", "recent",
     "research", "search", "find", "information", "image", "visual", "picture",
     "analyze", "review", "explain", "compare"}

\* texts without a keyword, every keyword alone, every two keywords in both
\* orders, keywords inside longer words, and keywords written with capitals
Queries ==
    {"", " ", "   ", "hello there", "What's the latest news today?"}
    \cup Keywords
    \cup {a \o " and " \o b : a, b \in Keywords}
    \cup {"encoded", "newspaper", "unexplained", "imagery"}
    \cup {"DEBUG this", "Latest NEWS", "Find It", "An IMAGE", "Please Review",
          "COMPARE and Picture", "Analyze"}

ClassifierInit ==
    /\ NoCall
    /\ probe \in {Asked("analyzeQueryType", [query |-> q]) : q \in Queries}

ApplyClassify ==
    /\ probe.fn = "analyzeQueryType"
    /\ ~probe.done
    /\ probe' = Answer(probe, analyzeQueryType(probe.args.query))
    /\ NoCallChanged

ClassifierNext == ApplyClassify

ClassifierSpec == ClassifierInit /\ [][ClassifierNext]_vars

----------------------------------------------------------------------------
(* selectModelsForQuery as a function of the category and the count *)

\* counts from below minus the registry's length to above it
Counts == (0 - Len(Registry) - 1)..(Len(Registry) + 2)

\* analyzeQueryType's six answers and a string that is none of them
QueryTypes == Categories \cup {"other"}

SelectorInit ==
    /\ NoCall
    /\ probe \in {Asked("selectModelsForQuery", [queryType |-> c, count |-> n]) :
                    c \in QueryTypes, n \in Counts}

ApplySelect ==
    /\ probe.fn = "selectModelsForQuery"
    /\ ~probe.done
    /\ probe' = Answer(probe, selectModelsForQuery(models, probe.args.queryType,
                                                   probe.args.count))
    /\ NoCallChanged

SelectorNext == ApplySelect

SelectorSpec == SelectorInit /\ [][SelectorNext]_vars

-----------------------------------------------------------------------------
(* Dispatch rounds over every count the registry can serve: minModels left out
   or 1..6, timeout left out or given. A provider either answers after 6 s
   or hangs until its timer fires. *)

DispatchCounts == {None} \cup {Some(k) : k \in 1..Len(Registry)}

DefaultsNext ==
    \/ \E msgs \in Histories, mm \in DispatchCounts, to \in Timeouts :
           StartDispatch(msgs, mm, to)
    \/ \E i \in 1..Len(Registry) :
           ProviderAnswers(i, "function http 2024 source", 6000)
    \/ \E i \in 1..Len(Registry) : TimeoutFires(i)
    \/ Complete("best")
    \/ Finish

DefaultsSpec == Init /\ [][DefaultsNext]_vars

-----------------------------------------------------------------------------
(* Dispatch rounds in which a provider may answer after its task's timer has
   fired: the provider's promise is not cancelled by the timer (lines 137-140),
   it settles whenever the provider gets round to it. *)

\* the provider of task i answers after the timer has fired. Its promise
\* settles into a race that has settled already; the task's result is what
\* the task's body makes of the outcome of the race.
ProviderAnswersLate(i, text, t) ==
    /\ ~streaming
    /\ pc \in {"dispatching", "done"}
    /\ i \in 1..Len(race)
    /\ race[i] = Throw("Timeout")
    /\ late[i] = Pending
    /\ t > TimeoutOrDefault(timeout)
    /\ late' = [late EXCEPT ![i] = Return(text)]
    /\ race' = [race EXCEPT ![i] = PromiseRace(race[i], Return(text))]
    /\ results' = [results EXCEPT ![i] =
                      TaskResult(selectedModels[i], race'[i],
                                 results[i].value.executionTime)]
    /\ UNCHANGED <<models, pc, messages, minModels, timeout, strategy, streaming,
                   queryType, selectedModels, invoked, responses, returned,
                   streamPhase, emitted, callerLog, cands, reduced, probe, peer, agent, chat>>

LateNext ==
    \/ \E msgs \in Histories, mm \in {None, Some(2)} :
           StartDispatch(msgs, mm, Some(5000))
    \/ \E i \in 1..Len(Registry), text \in ResponseTexts, t \in ExecTimes :
           ProviderAnswers(i, text, t)
    \/ \E i \in 1..Len(Registry) : TimeoutFires(i)
    \/ \E i \in 1..Len(Registry), text \in ResponseTexts, t \in ExecTimes :
           ProviderAnswersLate(i, text, t)
    \/ \E strat \in {"best", "parallel"} : Complete(strat)
    \/ Finish

LateSpec == Init /\ [][LateNext]_vars

-----------------------------------------------------------------------------
(* Two generateBestResponse calls in flight on the one exported instance
   (line 301). The first call is carried by the variables of the call, the
   second by peer; the second is started while the first is dispatching. The
   instance's only field is the registry. *)

\* what the second call's providers return
PeerTexts == {"", "second opinion 2024"}

PairHistories ==
    {h \in Histories : Len(h) = 1 /\ Classify(h) \in {"code", "realtime"}}

StartPeer(msgs, mm) ==
    /\ pc = "dispatching"
    /\ peer.pc = "idle"
    /\ LET selected == Select(msgs, mm)
       IN  peer' = [pc |-> "dispatching",
                    messages |-> msgs,
                    selectedModels |-> selected,
                    race |-> [i \in 1..Len(selected) |-> Pending],
                    results |-> [i \in 1..Len(selected) |-> Pending],
                    responses |-> <<>>,
                    strategy |-> NoValue,
                    returned |-> None]
    /\ models' = RegistryAfterSelect(models, Classify(msgs))
    /\ UNCHANGED <<pc, messages, minModels, timeout, strategy, streaming,
                   queryType, selectedModels, invoked, race, results, responses,
                   returned, streamPhase, emitted, callerLog, cands, reduced,
                   probe, late, agent, chat>>

PeerSettles(i, settled, t) ==
    /\ peer.pc = "dispatching"
    /\ i \in 1..Len(peer.results)
    /\ peer.results[i] = Pending
    /\ peer' = [peer EXCEPT
                   !.race[i] = PromiseRace(@, settled),
                   !.results[i] = TaskResult(peer.selectedModels[i], settled, t)]
    /\ UNCHANGED <<models, pc, messages, minModels, timeout, strategy, streaming,
                   queryType, selectedModels, invoked, race, results, responses,
                   returned, streamPhase, emitted, callerLog, cands, reduced,
                   probe, late, agent, chat>>

\* the second call leaves out options.timeout
PeerAnswers(i, text, t) ==
    /\ t < TimeoutOrDefault(None)
    /\ PeerSettles(i, Return(text), t)

PeerTimeoutFires(i) == PeerSettles(i, Throw("Timeout"), TimeoutOrDefault(None))

PeerCompletes(strat) ==
    /\ peer.pc = "dispatching"
    /\ AllSettled(peer.results)
    /\ LET got == getMultipleResponses(RoundResults(peer.results, results))
       IN  peer' = IF got.kind = "throw"
                   THEN [peer EXCEPT !.pc = "done", !.returned = got]
                   ELSE [peer EXCEPT !.pc = "done",
                                     !.responses = got.value,
                                     !.strategy = strat,
                                     !.returned = Reduce(strat, got.value).out]
    /\ UNCHANGED <<models, pc, messages, minModels, timeout, strategy, streaming,
                   queryType, selectedModels, invoked, race, results, responses,
                   returned, streamPhase, emitted, callerLog, cands, reduced,
                   probe, late, agent, chat>>

PeerFinish ==
    /\ peer.pc = "done"
    /\ peer' = NoPeer
    /\ UNCHANGED <<models, pc, messages, minModels, timeout, strategy, streaming,
                   queryType, selectedModels, invoked, race, results, responses,
                   returned, streamPhase, emitted, callerLog, cands, reduced,
                   probe, late, agent, chat>>

PairNext ==
    \/ \E msgs \in PairHistories : StartDispatch(msgs, Some(2), None)
    \/ \E i \in 1..Len(Registry), text \in ResponseTexts, t \in ExecTimes :
           ProviderAnswers(i, text, t)
    \/ \E i \in 1..Len(Registry) : TimeoutFires(i)
    \/ \E strat \in {"best", "parallel"} : Complete(strat)
    \/ Finish
    \/ \E msgs \in PairHistories : StartPeer(msgs, Some(2))
    \/ \E i \in 1..Len(Registry), text \in PeerTexts, t \in ExecTimes :
           PeerAnswers(i, text, t)
    \/ \E i \in 1..Len(Registry) : PeerTimeoutFires(i)
    \/ \E strat \in {"best", "parallel"} : PeerCompletes(strat)
    \/ PeerFinish

PairSpec == Init /\ [][PairNext]_vars

-----------------------------------------------------------------------------
(* The ModelManager (model-manager.ts lines 63-159): getProvider and
   isValidModel. A provider is named by the label of its error messages. *)

\* (mutant) getProvider without its genspark rule
getProviderNoGenspark(modelId) ==
    IF StartsWith(modelId, "gpt-") \/ Includes(modelId, "openai") THEN "OpenAI"
    ELSE IF StartsWith(modelId, "claude-") \/ Includes(modelId, "anthropic") THEN "Anthropic"
    ELSE IF StartsWith(modelId, "deepseek-") \/ Includes(modelId, "deepseek") THEN "DeepSeek"
    ELSE IF Includes(modelId, "sonar") \/ Includes(modelId, "perplexity") THEN "Perplexity"
    ELSE "OpenAI"

\* getProvider (lines 93-108)
getProvider(modelId) ==
    IF StartsWith(modelId, "gpt-") \/ Includes(modelId, "openai") THEN "OpenAI"
    ELSE IF StartsWith(modelId, "claude-") \/ Includes(modelId, "anthropic") THEN "Anthropic"
    ELSE IF StartsWith(modelId, "deepseek-") \/ Includes(modelId, "deepseek") THEN "DeepSeek"
    ELSE IF Includes(modelId, "sonar") \/ Includes(modelId, "perplexity") THEN "Perplexity"
    ELSE IF Includes(modelId, "genspark") THEN "DeepSeek"
    ELSE "OpenAI"

validModels ==
    <<"gpt-4o", "gpt-3.5-turbo", "claude-3-7-sonnet-20250219",
      "claude-3-opus-20240229", "claude-3-sonnet-20240229", "deepseek-coder",
      "llama-3.1-sonar-large-128k-online", "genspark-analyst">>

\* isValidModel (lines 143-155)
isValidModel(modelId) == \E i \in 1..Len(validModels) : validModels[i] = modelId

\* model ids: the valid ones, and every prefix of IdPrefixes before every
\* stem of IdStems, which the rules match at the start, inside, or not at all
IdPrefixes == {"", "gpt-", "claude-", "deepseek-", "my-", "GPT-"}

IdStems ==
    {"", "4", "openai", "anthropic", "deepseek", "sonar", "perplexity",
     "genspark", "gpt-4o", "claude-3", "mistral"}

ModelIds ==
    {validModels[i] : i \in 1..Len(validModels)}
    \cup {p \o t : p \in IdPrefixes, t \in IdStems}

ManagerInit ==
    /\ NoCall
    /\ probe \in {Asked(fn, [modelId |-> id]) :
                    fn \in {"getProvider", "isValidModel"}, id \in ModelIds}

ApplyGetProvider ==
    /\ probe.fn = "getProvider"
    /\ ~probe.done
    /\ probe' = Answer(probe, Return(getProvider(probe.args.modelId)))
    /\ NoCallChanged

ApplyIsValidModel ==
    /\ probe.fn = "isValidModel"
    /\ ~probe.done
    /\ probe' = Answer(probe, Return(isValidModel(probe.args.modelId)))
    /\ NoCallChanged

ManagerNext == ApplyGetProvider \/ ApplyIsValidModel

ManagerSpec == ManagerInit /\ [][ManagerNext]_vars

-----------------------------------------------------------------------------
(* The WebSocket chat handler (routes.ts lines 124-219) on MemStorage
   (multi-model-coordinator.ts lines 643-683), for one client and one
   conversation. MemStorage's methods await nothing, so the awaits of the
   handler up to the provider call resume as microtasks, before any other
   message event is handled: the handler runs from the arrival of the message
   to the provider's first network await without interruption. *)

\* handleChatMessage calls the model follows
MaxChatCalls == 2

\* content chunks one stream yields at most
MaxChatChunks == 2

Conversation == "c1"

\* what the k-th content chunk of a stream carries
ChunkText(k) == CharAt("abcdefgh", k)

\* the models a chat message may ask for: one served by an adapter that
\* streams and one served by PerplexityProvider, which ignores the callbacks
ChatModels == {"gpt-4o", "llama-3.1-sonar-large-128k-online"}

\* whether the provider's generateResponse hands the callbacks to a
\* generateStreamingResponse
Streams(provider) == provider \in {"OpenAI", "Anthropic", "DeepSeek"}

\* MemStorage.createMessage: ids count up from 1, so the id is the position
createMessage(stored, role, content) ==
    Append(stored, [id |-> Len(stored) + 1, conversationId |-> Conversation,
                    role |-> role, content |-> content])

\* MemStorage.getMessages: the conversation's messages by createdAt, which is
\* the order of creation
getMessages(stored, conversationId) ==
    SelectSeq(stored, LAMBDA m : m.conversationId = conversationId)

\* MemStorage.updateMessage with {content}
updateMessage(stored, id, content) ==
    IF id \in 1..Len(stored) THEN [stored EXCEPT ![id].content = content] ELSE stored

\* lines 148-151: the history without the call's own placeholder
conversationHistory(msgs, assistantId) ==
    LET kept == SelectSeq(msgs, LAMBDA m : m.id # assistantId)
    IN  [i \in 1..Len(kept) |-> Turn(kept[i].role, kept[i].content)]

Frame(type, messageId, chunk, isComplete, message) ==
    [type |-> type, messageId |-> messageId, chunk |-> chunk,
     isComplete |-> isComplete, message |-> message]

\* ws.send guarded by ws.readyState === WebSocket.OPEN
Send(sent, open, frame) == IF open THEN Append(sent, frame) ELSE sent

\* (mutant) onChunk keeping the latest chunk instead of appending it
OnChunkLatestOnly(call, chunk) ==
    [call EXCEPT !.fullResponse = chunk, !.chunks = Append(@, chunk)]

\* onChunk (lines 159-161); chunks lists what the adapter delivered
OnChunk(call, chunk) ==
    [call EXCEPT !.fullResponse = @ \o chunk, !.chunks = Append(@, chunk)]

OnlyChatChanges ==
    UNCHANGED <<models, pc, messages, minModels, timeout, strategy, streaming,
                queryType, selectedModels, invoked, race, results, responses,
                returned, streamPhase, emitted, callerLog, cands, reduced, probe,
                late, peer, agent>>

\* a chat_message arrives: lines 126-157 and the adapter up to its first
\* network await
ChatMessageArrives(content, model) ==
    /\ chat.open
    /\ Len(chat.calls) < MaxChatCalls
    /\ LET withUser == createMessage(chat.stored, "user", content)
           withBoth == createMessage(withUser, "assistant", "")
           assistantId == Len(withBoth)
           call == [model |-> model,
                    assistantId |-> assistantId,
                    history |-> conversationHistory(
                                    getMessages(withBoth, Conversation), assistantId),
                    phase |-> IF Streams(getProvider(model))
                              THEN "opening" ELSE "fetching",
                    chunks |-> <<>>,
                    fullResponse |-> ""]
       IN  chat' = [chat EXCEPT !.stored = withBoth, !.calls = Append(@, call)]
    /\ OnlyChatChanges

InPhase(c, phase) == c \in 1..Len(chat.calls) /\ chat.calls[c].phase = phase

ChatStreamOpens(c) ==
    /\ InPhase(c, "opening")
    /\ chat' = [chat EXCEPT !.calls[c].phase = "iterating"]
    /\ OnlyChatChanges

\* onError (lines 201-209), called by the adapter's catch
OnError(c, msg) ==
    [chat EXCEPT
        !.calls[c].phase = "failed",
        !.sent = Send(@, chat.open,
                      Frame("error", 0, "", FALSE,
                            "Failed to generate response: "
                            \o getProvider(chat.calls[c].model)
                            \o " streaming error: " \o msg))]

ChatStreamOpenFails(c, msg) ==
    /\ InPhase(c, "opening")
    /\ chat' = OnError(c, msg)
    /\ OnlyChatChanges

\* the stream yields a delta with content: onChunk
ChatDelta(c) ==
    /\ InPhase(c, "iterating")
    /\ Len(chat.calls[c].chunks) < MaxChatChunks
    /\ LET chunk == ChunkText(Len(chat.calls[c].chunks) + 1)
       IN  chat' = [chat EXCEPT
                       !.calls[c] = OnChunk(@, chunk),
                       !.sent = Send(@, chat.open,
                                     Frame("stream_chunk", chat.calls[c].assistantId,
                                           chunk, FALSE, ""))]
    /\ OnlyChatChanges

\* the stream ends: onComplete runs up to its first await, so updateMessage
\* has been applied (line 171)
ChatStreamEnds(c) ==
    /\ InPhase(c, "iterating")
    /\ chat' = [chat EXCEPT
                   !.calls[c].phase = "completing",
                   !.stored = updateMessage(@, chat.calls[c].assistantId,
                                            chat.calls[c].fullResponse)]
    /\ OnlyChatChanges

ChatStreamFails(c, msg) ==
    /\ InPhase(c, "iterating")
    /\ chat' = OnError(c, msg)
    /\ OnlyChatChanges

\* onComplete after its first await (lines 173-187): the terminating frame,
\* then the title request when the conversation is still untitled
CompleteFrameSent(c) ==
    /\ InPhase(c, "completing")
    /\ chat' = [chat EXCEPT
                   !.calls[c].phase = IF chat.title = "New Conversation"
                                      THEN "titling" ELSE "done",
                   !.sent = Send(@, chat.open,
                                 Frame("stream_chunk", chat.calls[c].assistantId,
                                       "", TRUE, ""))]
    /\ OnlyChatChanges

\* the title request resolves (lines 189-194) or rejects (lines 195-197)
TitleSettles(c, ok) ==
    /\ InPhase(c, "titling")
    /\ chat' = [chat EXCEPT
                   !.calls[c].phase = "done",
                   !.title = IF ok THEN "titled" ELSE @]
    /\ OnlyChatChanges

\* an adapter that ignores the callbacks returns its text: the handler drops it
ChatFetchReturns(c) ==
    /\ InPhase(c, "fetching")
    /\ chat' = [chat EXCEPT !.calls[c].phase = "done"]
    /\ OnlyChatChanges

\* an adapter that ignores the callbacks throws: the handler's catch
\* (lines 211-218)
ChatFetchThrows(c, msg) ==
    /\ InPhase(c, "fetching")
    /\ chat' = [chat EXCEPT
                   !.calls[c].phase = "failed",
                   !.sent = Send(@, chat.open,
                                 Frame("error", 0, "", FALSE,
                                       getProvider(chat.calls[c].model)
                                       \o " API error: " \o msg))]
    /\ OnlyChatChanges

\* the client goes away
SocketCloses ==
    /\ chat.open
    /\ chat' = [chat EXCEPT !.open = FALSE]
    /\ OnlyChatChanges

ChatNext ==
    \/ \E content \in {"hello"}, model \in ChatModels : ChatMessageArrives(content, model)
    \/ \E c \in 1..MaxChatCalls : ChatStreamOpens(c)
    \/ \E c \in 1..MaxChatCalls, msg \in UpstreamErrors : ChatStreamOpenFails(c, msg)
    \/ \E c \in 1..MaxChatCalls : ChatDelta(c)
    \/ \E c \in 1..MaxChatCalls : ChatStreamEnds(c)
    \/ \E c \in 1..MaxChatCalls, msg \in UpstreamErrors : ChatStreamFails(c, msg)
    \/ \E c \in 1..MaxChatCalls : CompleteFrameSent(c)
    \/ \E c \in 1..MaxChatCalls, ok \in BOOLEAN : TitleSettles(c, ok)
    \/ \E c \in 1..MaxChatCalls : ChatFetchReturns(c)
    \/ \E c \in 1..MaxChatCalls, msg \in UpstreamErrors : ChatFetchThrows(c, msg)
    \/ SocketCloses

ChatSpec == Init /\ [][ChatNext]_vars

----------------------------------------------------------------------------
(* Properties of a dispatch round *)

\* task i's provider returned non-empty text before its timer fired
Answered(i) == race[i].kind = "return" /\ race[i].value # ""

Successes == {i \in 1..Len(race) : Answered(i)}

EntriesOf(i) ==
    {j \in 1..Len(responses) : responses[j].modelId = selectedModels[i].id}

RoundDone == pc = "done" /\ ~streaming

\* C1: when a dispatch round is over, the returned set holds exactly one
\* response, carrying the provider's text, for every selected provider that
\* returned non-empty text before its timeout, and none for a provider that
\* threw, timed out or returned empty text: a failure never removes a
\* sibling's result.
C1_PartialFailureTolerated ==
    RoundDone =>
        /\ \A i \in 1..Len(selectedModels) :
              IF Answered(i)
              THEN /\ Cardinality(EntriesOf(i)) = 1
                   /\ \A j \in EntriesOf(i) : responses[j].response = race[i].value
              ELSE EntriesOf(i) = {}
        /\ Len(responses) = Cardinality(Successes)

\* three providers, one throws, two answer: exactly two entries
C1_Witness ==
    /\ RoundDone
    /\ Len(selectedModels) = 3
    /\ Cardinality(Successes) = 2
    /\ \E i \in 1..3 : race[i] = Throw(ApiError(selectedModels[i].provider, "rate limited"))
    /\ Len(responses) = 2

TimedOut(i) == race[i] = Throw("Timeout")

CanStillAnswer(j) ==
    ENABLED (\E text \in ResponseTexts, t \in ExecTimes : ProviderAnswers(j, text, t))

\* C2: every dispatch round eventually completes; a provider that has not
\* answered when the timeout elapses is recorded as a failed response with
\* score 0 and a timeout reason, and while it is so recorded the providers
\* still in flight can settle.
C2_RoundCompletes ==
    /\ (pc = "dispatching") ~> (pc = "done")
    /\ [](\A i \in 1..Len(race) :
            TimedOut(i) =>
                /\ results[i].kind = "return"
                /\ results[i].value.response = ""
                /\ results[i].value.score = 0
                /\ results[i].value.reasoning = "Error: Timeout")
    /\ [](\A i, j \in 1..Len(race) :
            (pc = "dispatching" /\ TimedOut(i) /\ race[j] = Pending)
                => CanStillAnswer(j))

\* a round that is over, in which one provider timed out and another answered
C2_Witness ==
    /\ RoundDone
    /\ \E i \in 1..Len(race) : TimedOut(i)
    /\ Successes # {}
    /\ returned.kind = "return"

\* C3: when no selected provider produced non-empty text, a non-streaming call
\* with strategy best, consensus or parallel returns the apology string.
C3_ApologyOnEmptySet ==
    (RoundDone /\ Successes = {} /\ strategy \in {"best", "consensus", "parallel"})
        => returned = Return(Apology)

\* three providers: one threw, one timed out, one returned empty text
C3_Witness ==
    /\ RoundDone
    /\ strategy = "consensus"
    /\ Len(selectedModels) = 3
    /\ \E i, j, k \in 1..3 :
          /\ TimedOut(i)
          /\ race[j] = Throw(ApiError(selectedModels[j].provider, "rate limited"))
          /\ race[k] = Return("")
    /\ returned = Return(Apology)

\* C4: a non-streaming call completes by returning a string, whatever the
\* history, the options and the providers' outcomes; it never raises.
C4_NeverRaises ==
    RoundDone => (returned.kind = "return" /\ returned.value \in STRING)

\* a call that returned although a provider threw and another timed out
C4_Witness ==
    /\ RoundDone
    /\ \E i, j \in 1..Len(race) : TimedOut(i) /\ race[j].kind = "throw" /\ ~TimedOut(j)
    /\ Successes # {}
    /\ returned.kind = "return"
    /\ returned.value # Apology

----------------------------------------------------------------------------
(* Properties of a streaming call *)

ChunkArgs(log) ==
    LET chunks == SelectSeq(log, LAMBDA e : e.cb = "onChunk")
    IN  [i \in 1..Len(chunks) |-> chunks[i].arg]

Count(log, cb) == Cardinality({i \in 1..Len(log) : log[i].cb = cb})

Fragments == SelectSeq(emitted, LAMBDA d : d # "")

\* C5: the caller's onChunk is invoked once per fragment of the adapter's
\* stream, in the stream's order; when the stream ends, onComplete follows the
\* last chunk, exactly once, and onError is not invoked.
C5_ChunksInOrderThenComplete ==
    streaming =>
        /\ ChunkArgs(callerLog) = Fragments
        /\ (streamPhase = "ended" =>
                /\ Len(callerLog) = Len(Fragments) + 1
                /\ \A i \in 1..Len(Fragments) : callerLog[i] = Event("onChunk", Fragments[i])
                /\ callerLog[Len(callerLog)] = Event("onComplete", "")
                /\ Count(callerLog, "onError") = 0)

C5_Witness ==
    /\ streaming
    /\ streamPhase = "ended"
    /\ emitted = <<"a", "", "b">>
    /\ callerLog = <<Event("onChunk", "a"), Event("onChunk", "b"), Event("onComplete", "")>>

\* C6: in a streaming call onError is delivered at most once and nothing is
\* delivered after it; onComplete and onError are never both delivered.
C6_ErrorOnceAndTerminal ==
    /\ Count(callerLog, "onError") <= 1
    /\ \A i \in 1..Len(callerLog) : callerLog[i].cb = "onError" => i = Len(callerLog)
    /\ ~(Count(callerLog, "onError") > 0 /\ Count(callerLog, "onComplete") > 0)

\* a stream that broke after its first chunk
C6_Witness ==
    /\ streaming
    /\ streamPhase = "broken"
    /\ Len(callerLog) = 2
    /\ callerLog[1] = Event("onChunk", "a")
    /\ callerLog[2].cb = "onError"

\* C7 (as claimed): for every task category, a streaming call whose selected
\* adapter has finished has delivered exactly one terminal callback,
\* onComplete or onError.
C7_OneTerminalCallback ==
    (pc = "done" /\ streaming /\ invoked # <<>>)
        => Count(callerLog, "onComplete") + Count(callerLog, "onError") = 1

\* the first entry of the Model Selector's ranking for a category
TopRanked(qType) == SortDescBy(models, LAMBDA m : Fitness(qType, m))[1]

\* C8 (as claimed): a call with streaming callbacks invokes exactly one
\* provider, the first of the ranking for the detected category, whatever
\* minModels and strategy are.
C8_StreamingInvokesTopRanked ==
    (streaming /\ pc \in {"streaming", "done"})
        => invoked = <<TopRanked(queryType).id>>

\* C9 (as claimed): a call whose options select the sequential strategy
\* invokes the top-ranked provider of the selection and no other provider.
C9_SequentialInvokesOnlyTop ==
    (pc = "done" /\ strategy = "sequential")
        => \A k \in 1..Len(invoked) : invoked[k] = TopRanked(queryType).id

----------------------------------------------------------------------------
(* Properties of the reducers *)


\* more than 30% of the lower-cased whitespace tokens of text are absent from
\* the token set of main
Novel(main, text) ==
    LET mainTokens == SeqToSet(SplitWs(ToLowerCase(main)))
        tokens == SplitWs(ToLowerCase(text))
        absent == {i \in 1..Len(tokens) : tokens[i] \notin mainTokens}
    IN  10 * Cardinality(absent) > 3 * Len(tokens)

\* what reducer best is claimed to return for winner w and runner-up r
BestAsClaimed(w, r, out) ==
    IF Abs(w.score - r.score) < 10 /\ Novel(w.response, r.response)
    THEN /\ StartsWith(out, w.response \o InsightLabel(r.modelId)
                            \o Substring(r.response, 0, 200))
         /\ Len(out) <= Len(w.response) + Len(InsightLabel(r.modelId)) + 200 + 3
    ELSE out = w.response

\* C10 (as claimed): for a list of two or more responses in any order, best
\* returns the text of the highest-scored response, followed by the labeled
\* excerpt of the highest-scored response of another provider when that one
\* scores within 10 points and more than 30% of its tokens are novel, and the
\* winner's text alone otherwise.
C10_BestMergesRunnerUp ==
    (reduced.given /\ reduced.reducer = "best" /\ Len(reduced.input) >= 2) =>
        LET l == reduced.input
            top == {i \in 1..Len(l) : \A j \in 1..Len(l) : l[j].score <= l[i].score}
            second(w) ==
                {i \in 1..Len(l) :
                    /\ l[i].modelId # l[w].modelId
                    /\ \A j \in 1..Len(l) :
                          l[j].modelId # l[w].modelId => l[j].score <= l[i].score}
        IN  /\ reduced.out.kind = "return"
            /\ \E w \in top : \E r \in second(w) :
                  BestAsClaimed(l[w], l[r], reduced.out.value)


\* the number of places of s at which sub occurs
Occurrences(s, sub) ==
    Cardinality({i \in 1..(Len(s) - Len(sub) + 1) : SubSeq(s, i, i + Len(sub) - 1) = sub})

\* the first 200 characters of a text, marked when the text is longer
Excerpt(text) == Substring(text, 0, 200) \o (IF Len(text) > 200 THEN "..." ELSE "")

InsightOf(r) == InsightLabel(r.modelId) \o Excerpt(r.response)

\* C11: the output of reducer best holds at most one Additional Insight
\* excerpt; it is the winner's text alone, or the winner's text followed by
\* the excerpt of another response that no response but the winner outscores
\* (never one ranked third or lower, never the winner itself).
C11_BestMergesAtMostOne ==
    (reduced.given /\ reduced.reducer = "best" /\ Len(reduced.input) >= 1) =>
        LET l == reduced.input
            top == {i \in 1..Len(l) : \A j \in 1..Len(l) : l[j].score <= l[i].score}
        IN  /\ reduced.out.kind = "return"
            /\ Occurrences(reduced.out.value, "**Additional Insight (") <= 1
            /\ \E w \in top :
                  \/ reduced.out.value = l[w].response
                  \/ \E r \in 1..Len(l) :
                        /\ r # w
                        /\ \A j \in 1..Len(l) : j # w => l[j].score <= l[r].score
                        /\ reduced.out.value = l[w].response \o InsightOf(l[r])

\* three responses, the second- and third-ranked both novel and both within
\* 10 points of the winner: only the second-ranked is excerpted
C11_Witness ==
    /\ reduced.given
    /\ reduced.reducer = "best"
    /\ Len(reduced.input) = 3
    /\ reduced.input[1].score = 74 /\ reduced.input[1].response = LongText
    /\ reduced.input[2].score = 80 /\ reduced.input[2].response = ShortText
    /\ reduced.input[3].score = 74 /\ reduced.input[3].response = LongText
    /\ reduced.out = Return(ShortText \o InsightOf(reduced.input[1]))


\* the orders of the indices of l in which the scores never increase
Rankings(l) ==
    {f \in ListOrders(Len(l)) :
        \A i \in 1..(Len(l) - 1) : l[f[i]].score >= l[f[i + 1]].score}

\* the excerpt r contributes under the 30% rule against the text main
InsightIfNovel(main, r) == IF Novel(main, r.response) THEN InsightOf(r) ELSE ""

\* C12: reducer consensus returns a single candidate unchanged; for more it
\* returns the text of the highest-scored response followed by the excerpts of
\* the second- and third-ranked responses, in that order, each only when more
\* than 30% of its tokens are absent from the top text; responses ranked fourth
\* or lower contribute nothing.
C12_ConsensusTopThree ==
    (reduced.given /\ reduced.reducer = "consensus" /\ Len(reduced.input) >= 1) =>
        LET l == reduced.input
        IN  /\ reduced.out.kind = "return"
            /\ IF Len(l) = 1 THEN reduced.out.value = l[1].response
               ELSE \E f \in Rankings(l) :
                      reduced.out.value =
                          l[f[1]].response
                          \o InsightIfNovel(l[f[1]].response, l[f[2]])
                          \o (IF Len(l) >= 3
                              THEN InsightIfNovel(l[f[1]].response, l[f[3]])
                              ELSE "")

\* more than three responses, all novel against the top one, the lowest-scored
\* first in the list: the second- and third-ranked are excerpted, in that order
C12_Witness ==
    /\ reduced.given
    /\ reduced.reducer = "consensus"
    /\ Len(reduced.input) > 3
    /\ reduced.input[1].score < 72
    /\ \E a, b \in 1..Len(reduced.input) :
          /\ reduced.input[a].score = 76
          /\ reduced.input[b].score = 72
          /\ a > b
          /\ reduced.out = Return(ShortText \o InsightOf(reduced.input[a])
                                            \o InsightOf(reduced.input[b]))


\* a response under a heading that gives its model id and its score
Headed(r) ==
    "**" \o r.modelId \o " (Score: " \o ToString(r.score) \o "):**\n"
    \o r.response \o "\n\n"

\* the responses of l, headed, in the order f from its i-th place on
RECURSIVE HeadedFrom(_, _, _)
HeadedFrom(l, f, i) ==
    IF i > Len(l) THEN "" ELSE Headed(l[f[i]]) \o HeadedFrom(l, f, i + 1)

\* C13: reducer parallel returns, under its title, every response of the
\* candidate list exactly once, whole, each headed by its model id and score,
\* in an order in which the scores never increase.
C13_ParallelListsAll ==
    (reduced.given /\ reduced.reducer = "parallel" /\ Len(reduced.input) >= 1) =>
        /\ reduced.out.kind = "return"
        /\ \E f \in Rankings(reduced.input) :
              reduced.out.value =
                  "**Comprehensive AI Analysis:**\n\n" \o HeadedFrom(reduced.input, f, 1)

\* three responses listed lowest score first
C13_Witness ==
    /\ reduced.given
    /\ reduced.reducer = "parallel"
    /\ Len(reduced.input) = 3
    /\ reduced.input[1].score = 70
    /\ reduced.input[2].score = 74
    /\ reduced.input[3].score = 80
    /\ reduced.out = Return("**Comprehensive AI Analysis:**\n\n"
                            \o Headed(reduced.input[3])
                            \o Headed(reduced.input[2])
                            \o Headed(reduced.input[1]))


----------------------------------------------------------------------------
(* Invariants of the dispatcher's result *)

SelectedIds == {selectedModels[i].id : i \in 1..Len(selectedModels)}

\* C14: a dispatch round returns no more responses than providers were
\* selected, every response is that of a selected provider, and no two
\* responses are of the same provider.
C14_NoMoreThanSelected ==
    RoundDone =>
        /\ Len(responses) <= Len(selectedModels)
        /\ \A j \in 1..Len(responses) : responses[j].modelId \in SelectedIds
        /\ \A j, k \in 1..Len(responses) :
              responses[j].modelId = responses[k].modelId => j = k

\* every one of three selected providers answered: three responses
C14_Witness ==
    /\ RoundDone
    /\ Len(selectedModels) = 3
    /\ Successes = 1..3
    /\ Len(responses) = 3

\* C15: every response the dispatcher returns, and so every response a
\* reducer is handed, has non-empty text; a provider whose call returned empty
\* text has no response in the returned set, like a provider that failed.
C15_NoEmptyTextReachesReducer ==
    RoundDone =>
        /\ \A j \in 1..Len(responses) : responses[j].response # ""
        /\ \A i \in 1..Len(selectedModels) :
              race[i] = Return("") => EntriesOf(i) = {}

\* a provider returned empty text in time, another answered: one response
C15_Witness ==
    /\ RoundDone
    /\ Len(selectedModels) = 2
    /\ race[1] = Return("")
    /\ results[1].value.score > 0
    /\ Answered(2)
    /\ Len(responses) = 1
    /\ responses[1].modelId = selectedModels[2].id


----------------------------------------------------------------------------
(* Properties of the Response Scorer *)

Scored == probe.fn = "scoreResponse" /\ probe.done
TaskScored == probe.fn = "task" /\ probe.done

\* C16: every score lies in 0..100: the one scoreResponse returns for any
\* text, category and execution time, and the one a task records; a provider
\* that threw or timed out is recorded with score 0.
C16_ScoreWithinBounds ==
    /\ Scored => probe.out \in 0..100
    /\ TaskScored =>
          /\ probe.out.kind = "return"
          /\ probe.out.value.score \in 0..100
          /\ probe.args.settled.kind = "throw" => probe.out.value.score = 0

\* a fast, long answer to a code request with a code block, a link and the
\* word function: 115 points accumulated, 100 returned
C16_Witness ==
    /\ Scored
    /\ probe.args = [response |-> Repeat(Block, 2) \o Marks, category |-> "code",
                     executionTime |-> 0]
    /\ probe.out = 100

SpeedBonus(t) == IF t < 2000 THEN 15 ELSE IF t < 5000 THEN 5 ELSE 0

CategoryBonus(text, category) ==
    IF category = "code" /\ (Includes(text, "function") \/ Includes(text, "class"))
    THEN 20
    ELSE IF category = "search"
            /\ (Includes(text, "according to") \/ Includes(text, "source"))
    THEN 15
    ELSE IF category = "realtime" /\ (Includes(text, "2024") \/ Includes(text, "2025"))
    THEN 10
    ELSE 0

\* the score as the scoring rules state it
ScoreByRule(text, category, t) ==
    Min(100, 50 + (IF Len(text) > 100 THEN 10 ELSE 0)
                + (IF Len(text) > 500 THEN 10 ELSE 0)
                + (IF Includes(text, Fence) THEN 15 ELSE 0)
                + (IF Includes(text, "http") THEN 5 ELSE 0)
                + CategoryBonus(text, category)
                + SpeedBonus(t))

\* C17: scoreResponse is min(100, 50 + 10 over 100 characters + 10 more over
\* 500 + 15 for a code fence + 5 for http + the category bonus + the speed
\* bonus), the speed bonus being 15 under 2 s, 5 from 2 s to under 5 s and 0
\* from 5 s on.
C17_ScoreFormula ==
    Scored => probe.out = ScoreByRule(probe.args.response, probe.args.category,
                                      probe.args.executionTime)

\* just under 2 s: both speed bonuses
C17_Witness ==
    /\ Scored
    /\ probe.args = [response |-> "ok", category |-> "general", executionTime |-> 1999]
    /\ probe.out = 65


\* C18 (as claimed): in a dispatch round the category bonus of every
\* provider's response is decided by the category the Query Classifier gave
\* the request: the score recorded for an answer is the score the rules give
\* its text under the request's category.
C18_BonusByRequestCategory ==
    (pc \in {"dispatching", "done"} /\ ~streaming) =>
        \A i \in 1..Len(results) :
            (results[i] # Pending /\ race[i].kind = "return") =>
                results[i].value.score =
                    ScoreByRule(race[i].value, queryType, results[i].value.executionTime)


----------------------------------------------------------------------------
(* Properties of the Query Classifier *)

\* the categories in priority order, each with its vocabulary
Vocabulary ==
    << [category |-> "code", words |-> {"code", "program", "debug", "function"}],
       [category |-> "realtime", words |-> {"current", "latest", "news", "recent"}],
       [category |-> "search", words |-> {"research", "search", "find", "information"}],
       [category |-> "multimodal", words |-> {"image", "visual", "picture", "analyze"}],
       [category |-> "analysis", words |-> {"analyze", "review", "explain", "compare"}] >>

\* word occurs in text as a substring, whatever the case of the text's letters
Mentions(text, word) == Includes(ToLowerCase(text), word)

ClassByPriority(text) ==
    LET hits == {i \in 1..Len(Vocabulary) :
                    \E word \in Vocabulary[i].words : Mentions(text, word)}
    IN  IF hits = {} THEN "general"
        ELSE Vocabulary[CHOOSE i \in hits : \A j \in hits : i <= j].category

Classified == probe.fn = "analyzeQueryType" /\ probe.done

\* C19: analyzeQueryType returns the first category, in the order code,
\* realtime, search, multimodal, analysis, whose vocabulary has a word that
\* occurs in the text as a case-insensitive substring, and general when none
\* has; empty and blank texts give general.
C19_FirstCategoryInPriorityOrder ==
    Classified =>
        /\ probe.out = ClassByPriority(probe.args.query)
        /\ probe.args.query \in {"", " ", "   "} => probe.out = "general"

C19_Witness ==
    /\ Classified
    /\ probe.args.query = "What's the latest news today?"
    /\ probe.out = "realtime"


\* the content of the most recent turn whose role is user ("" without one)
LatestUserUtterance(msgs) ==
    LET users == {i \in 1..Len(msgs) : msgs[i].role = "user"}
    IN  IF users = {} THEN ""
        ELSE msgs[CHOOSE i \in users : \A j \in users : j <= i].content

\* C20 (as claimed): for any history, the category a call selects providers
\* by is the classification of the most recent turn whose role is user; later
\* turns of another role do not change it.
C20_CategoryOfLatestUserTurn ==
    pc # "idle" => queryType = analyzeQueryType(LatestUserUtterance(messages))


----------------------------------------------------------------------------
(* Properties of the Model Selector *)

Selection == probe.fn = "selectModelsForQuery" /\ probe.done

\* C21 (as claimed): for every category and every integer count, the Model
\* Selector returns at most min(count, registry length) providers (none when
\* that is below 0) and no provider twice.
C21_AtMostCountProviders ==
    Selection =>
        /\ Len(probe.out) <= Max(0, Min(probe.args.count, Len(Registry)))
        /\ \A i, j \in 1..Len(probe.out) : probe.out[i].id = probe.out[j].id => i = j

\* the place of the registry's i-th provider in the ranking for a category:
\* behind every provider of higher fitness and every earlier-declared provider
\* of the same fitness
RankOf(qType, i) ==
    1 + Cardinality({j \in 1..Len(Registry) :
            \/ Fitness(qType, Registry[j]) > Fitness(qType, Registry[i])
            \/ Fitness(qType, Registry[j]) = Fitness(qType, Registry[i]) /\ j < i})

\* C22: the Model Selector returns the first entries of the ranking by
\* descending fitness with ties in declaration order; a provider tagged with
\* the requested category comes before every provider with another tag.
C22_RankedByFitnessStable ==
    Selection =>
        /\ \A k \in 1..Len(probe.out) :
              \E i \in 1..Len(Registry) :
                  RankOf(probe.args.queryType, i) = k /\ probe.out[k] = Registry[i]
        /\ \A k \in 1..Len(probe.out) :
              probe.out[k].category # probe.args.queryType =>
                  \A i \in 1..Len(Registry) :
                      Registry[i].category = probe.args.queryType =>
                          \E h \in 1..(k - 1) : probe.out[h] = Registry[i]

\* three providers for a realtime request: the realtime provider, the search
\* provider, then the first-declared of the rest
C22_Witness ==
    /\ Selection
    /\ probe.args = [queryType |-> "realtime", count |-> 3]
    /\ probe.out = <<Registry[4], Registry[6], Registry[1]>>


----------------------------------------------------------------------------
(* Algebraic properties of the reducers *)

\* C23: a reducer called again on the list its previous call was handed
\* returns the same string as that previous call.
C23_ReducersIdempotent ==
    [][(reduced.given /\ reduced'.reducer = reduced.reducer)
          => reduced'.out = reduced.out]_vars

\* consensus called on a list that an earlier call had handed back reordered
C23_Witness ==
    /\ reduced.given
    /\ reduced.reducer = "consensus"
    /\ reduced.input = cands
    /\ Len(cands) = 3
    /\ cands[1].modelId # Registry[1].id
    /\ cands[1].score = cands[2].score
    /\ Occurrences(reduced.out.value, "**Additional Insight (") = 2

\* C30 (as claimed): best, consensus and parallel leave the list they are
\* given as it was: the same elements in the same order when they return.
C30_ReducersLeaveInputUnchanged ==
    reduced.given => cands = reduced.input


\* C24: in streaming mode a failure of the selected adapter reaches the caller
\* through onError, carrying the adapter's error, and the call returns
\* normally: it resolves with '' and never rejects
AdapterFailed == streamPhase \in {"threw", "refused", "broken"}

FailureOf(phase, provider) ==
    IF phase = "threw"
    THEN {ApiError(provider, m) : m \in UpstreamErrors}
    ELSE {StreamingError(provider, m) : m \in UpstreamErrors}

C24_StreamingFailureViaOnError ==
    /\ (streaming /\ returned # None) => returned = Return("")
    /\ (streaming /\ pc = "done" /\ AdapterFailed) =>
          /\ callerLog # <<>>
          /\ callerLog[Len(callerLog)].cb = "onError"
          /\ callerLog[Len(callerLog)].arg \in FailureOf(streamPhase, Primary.provider)
          /\ Count(callerLog, "onError") = 1

\* an adapter without streaming support threw: the bridge's catch reported it
C24_Witness ==
    /\ streaming /\ pc = "done" /\ streamPhase = "threw"
    /\ callerLog = <<Event("onError", ApiError(Primary.provider, "rate limited"))>>
    /\ returned = Return("")


\* C29: coordination leaves the provider registry as it was constructed: the
\* same descriptors in the same declaration order after any sequence of calls
C29_RegistryUnchanged == models = Registry

\* a finished call whose ranking put another provider first than the registry
C29_Witness ==
    /\ pc = "done"
    /\ queryType = "search"
    /\ selectedModels # <<>>
    /\ selectedModels[1].id # Registry[1].id
    /\ models = Registry


\* C25: a non-streaming round whose options leave out minModels dispatches
\* exactly 3 providers, one given minModels k with 1 <= k <= 6 dispatches
\* exactly k, and one whose options leave out timeout gives each call 30
\* seconds: an answer within 30 s is taken, a call that hangs fails at 30 s
Dispatched == ~streaming /\ pc \in {"dispatching", "done"}

C25_DefaultCountAndTimeout ==
    Dispatched =>
        /\ Cardinality({invoked[i] : i \in 1..Len(invoked)}) = Len(invoked)
        /\ Len(race) = Len(invoked)
        /\ ~minModels.given => Len(invoked) = 3
        /\ (minModels.given /\ minModels.value \in 1..Len(Registry))
              => Len(invoked) = minModels.value
        /\ ~timeout.given =>
              \A i \in 1..Len(race) :
                  /\ TimedOut(i) => results[i].value.executionTime = 30000
                  /\ race[i].kind = "return" => results[i].value.executionTime < 30000

\* no options: three providers, one answered after 6 s, one hung for 30 s
C25_Witness ==
    /\ RoundDone
    /\ ~minModels.given /\ ~timeout.given
    /\ Len(invoked) = 3
    /\ \E i \in 1..3 : TimedOut(i) /\ results[i].value.executionTime = 30000
    /\ \E i \in 1..3 : Answered(i) /\ results[i].value.executionTime = 6000


\* C26: the result of a dispatch round is a function of what each provider
\* returned and how long it took, not of the order in which the providers
\* completed: under every interleaving the returned set lists the answers in
\* selection order, and the output of best, consensus and parallel is the
\* reduction of that list
AnsweredInSelectionOrder == SelectSeq([i \in 1..Len(race) |-> i], Answered)

ExpectedEntry(i) ==
    [modelId |-> selectedModels[i].id,
     response |-> race[i].value,
     score |-> scoreResponse(race[i].value, selectedModels[i].category,
                             results[i].value.executionTime),
     reasoning |-> selectedModels[i].strength \o " specialization",
     executionTime |-> results[i].value.executionTime]

ExpectedSet ==
    [k \in 1..Len(AnsweredInSelectionOrder) |->
        ExpectedEntry(AnsweredInSelectionOrder[k])]

C26_CompletionOrderIrrelevant ==
    RoundDone =>
        /\ responses = ExpectedSet
        /\ strategy \in {"best", "consensus", "parallel"}
              => returned = Reduce(strategy, ExpectedSet).out

\* the provider selected last answered in 1.5 s, the one selected first in 6 s:
\* the set still lists the first-selected provider first
C26_Witness ==
    /\ RoundDone
    /\ Len(selectedModels) = 3
    /\ Successes = {1, 2, 3}
    /\ results[1].value.executionTime = 6000
    /\ results[3].value.executionTime = 1500
    /\ strategy = "consensus"
    /\ responses[1].modelId = selectedModels[1].id
    /\ responses[3].modelId = selectedModels[3].id


\* C27: once the timer of a provider's task has fired, an answer arriving from
\* that provider afterwards leaves the task failed with score 0 and no text,
\* is never listed in the returned set, changes no task's recorded result,
\* the set or the output, and leaves the siblings in flight free to settle
AnsweredLate(i) == late[i] # Pending

C27_LateAnswerIgnored ==
    /\ [](\A i \in 1..Len(late) :
            AnsweredLate(i) =>
                /\ results[i].value.response = ""
                /\ results[i].value.score = 0
                /\ results[i].value.reasoning = "Error: Timeout"
                /\ RoundDone => EntriesOf(i) = {})
    /\ [][(late' # late /\ Len(late') = Len(late)) =>
              /\ results' = results
              /\ responses' = responses
              /\ returned' = returned]_vars
    /\ [](\A i, j \in 1..Len(late) :
            (pc = "dispatching" /\ AnsweredLate(i) /\ race[j] = Pending)
                => CanStillAnswer(j))

\* a provider's text arrived after its timeout while a sibling had answered in
\* time: the round returned the sibling's response only
C27_Witness ==
    /\ RoundDone
    /\ Len(selectedModels) = 3
    /\ late[1] = Return("function http 2024 source")
    /\ Answered(2)
    /\ TimedOut(3) /\ ~AnsweredLate(3)
    /\ Len(responses) = 1
    /\ responses[1].modelId = selectedModels[2].id

\* C28: two calls in flight on the one instance do not interfere: each builds
\* its own response set, and the set and the output of a round hold the
\* responses produced by that round's own provider invocations and no other,
\* under every interleaving of the two rounds' completions
AnswersOf(selected, raced, settled) ==
    LET answered == SelectSeq([i \in 1..Len(raced) |-> i],
                              LAMBDA i : raced[i].kind = "return" /\ raced[i].value # "")
    IN  [k \in 1..Len(answered) |->
            [modelId |-> selected[answered[k]].id,
             response |-> raced[answered[k]].value,
             score |-> scoreResponse(raced[answered[k]].value,
                                     selected[answered[k]].category,
                                     settled[answered[k]].value.executionTime),
             reasoning |-> selected[answered[k]].strength \o " specialization",
             executionTime |-> settled[answered[k]].value.executionTime]]

C28_ConcurrentRoundsIsolated ==
    /\ RoundDone =>
          /\ responses = AnswersOf(selectedModels, race, results)
          /\ \A j \in 1..Len(responses) : responses[j].response \in ResponseTexts
          /\ returned = Reduce(strategy, AnswersOf(selectedModels, race, results)).out
    /\ peer.pc = "done" =>
          /\ peer.responses = AnswersOf(peer.selectedModels, peer.race, peer.results)
          /\ \A j \in 1..Len(peer.responses) : peer.responses[j].response \in PeerTexts
          /\ peer.returned =
                 Reduce(peer.strategy,
                        AnswersOf(peer.selectedModels, peer.race, peer.results)).out

\* both calls asked the same two providers and each got its own two answers
C28_Witness ==
    /\ RoundDone
    /\ peer.pc = "done"
    /\ Ids(selectedModels) = Ids(peer.selectedModels)
    /\ Len(responses) = 2
    /\ Len(peer.responses) = 2
    /\ \A j \in 1..2 : responses[j].response = "function http 2024 source"
    /\ \A j \in 1..2 : peer.responses[j].response = "second opinion 2024"


\* C31: in best and consensus the output holds an Additional Insight excerpt
\* of a response only if at least 30% of that response's tokens are absent
\* from the token set of the top response; a response with fewer novel tokens
\* contributes no excerpt
NovelTokens(main, text) ==
    LET mainTokens == SeqToSet(SplitWs(ToLowerCase(main)))
        tokens == SplitWs(ToLowerCase(text))
    IN  Cardinality({i \in 1..Len(tokens) : tokens[i] \notin mainTokens})

AtLeast30PercentNovel(main, text) ==
    10 * NovelTokens(main, text) >= 3 * Len(SplitWs(ToLowerCase(text)))

Excerpted(out, r) == Occurrences(out, InsightLabel(r.modelId)) > 0

C31_ExcerptOnlyIfNovel ==
    (reduced.given /\ reduced.reducer \in {"best", "consensus"}) =>
        LET l == reduced.input
            top == {i \in 1..Len(l) : \A j \in 1..Len(l) : l[j].score <= l[i].score}
        IN  \A i \in 1..Len(l) :
                Excerpted(reduced.out.value, l[i]) =>
                    \E w \in top : AtLeast30PercentNovel(l[w].response, l[i].response)

\* consensus on three responses: the one with four novel tokens of ten is
\* excerpted, the higher-scored one with three of ten (a repeated one) is not
C31_Witness ==
    /\ reduced.given
    /\ reduced.reducer = "consensus"
    /\ Len(reduced.input) = 3
    /\ reduced.input[1].response = "a b c d e f g x x x" /\ reduced.input[1].score = 76
    /\ reduced.input[2].response = "a b c d e f w x y z" /\ reduced.input[2].score = 72
    /\ reduced.input[3].response = MainText /\ reduced.input[3].score = 80
    /\ reduced.out = Return(MainText \o InsightOf(reduced.input[2]))


\* C32: every response in the set handed to a reducer has a score from 50 to
\* 100, and every provider that threw or timed out is recorded with score 0:
\* no response of the returned set carries score 0
Failed(i) == race[i].kind = "throw"

C32_ReturnedScoresAtLeast50 ==
    /\ \A i \in 1..Len(race) : Failed(i) => results[i].value.score = 0
    /\ RoundDone =>
          /\ \A j \in 1..Len(responses) : responses[j].score \in 50..100
          /\ \A i \in 1..Len(race) : Failed(i) => EntriesOf(i) = {}

\* one provider threw, one timed out and one answered after 6 s: the set holds
\* the one answer, scored 50 or more
C32_Witness ==
    /\ RoundDone
    /\ Len(selectedModels) = 3
    /\ \E i \in 1..3 : TimedOut(i) /\ results[i].value.score = 0
    /\ \E i \in 1..3 : Failed(i) /\ ~TimedOut(i) /\ results[i].value.score = 0
    /\ Len(responses) = 1
    /\ responses[1].executionTime = 6000
    /\ responses[1].score >= 50


----------------------------------------------------------------------------
(* Properties of the AutonomousAgent *)

\* the improvement executions in flight or just completed
Executions ==
    (IF agent.manual.given THEN {agent.manual.value} ELSE {})
    \cup {agent.loops[k].run.value :
            k \in {j \in 1..Len(agent.loops) : agent.loops[j].run.given}}

\* the steps the task's completion is claimed to depend on
RequiredSteps ==
    {"createBranch", "generateImplementationPlan", "implementChanges", "commitAndPush"}

StatusMoves(before, after) ==
    \/ after.status = before.status
    \/ before.status = "implementing" /\ after.status \in {"completed", "failed"}

\* C33: an improvement execution never raises to its caller. Whatever step
\* fails, executeImprovement (and so manualImprovement) returns normally, the
\* task having gone from pending through implementing to exactly one of
\* completed and failed; it is completed only if branch creation, planning,
\* implementation and commit and push all succeeded, and completedAt is set
\* exactly then.
C33_ImprovementNeverRaises ==
    /\ [](\A run \in Executions :
            /\ run.outcome \in {None, Return(NoValue)}
            /\ IF run.step = "returned"
               THEN run.outcome = Return(NoValue) /\ run.status \in {"completed", "failed"}
               ELSE run.outcome = None /\ run.status = "implementing"
            /\ run.status = "completed" => run.failed \cap RequiredSteps = {}
            /\ run.status = "failed" => run.failed \cap RequiredSteps # {}
            /\ run.completedAt <=> run.status = "completed")
    /\ [][(agent.manual.given /\ agent'.manual.given)
              => StatusMoves(agent.manual.value, agent'.manual.value)]_vars
    /\ [][\A k \in 1..Len(agent.loops) :
              (/\ Len(agent'.loops) = Len(agent.loops)
               /\ agent.loops[k].run.given
               /\ agent'.loops[k].run.given)
                  => StatusMoves(agent.loops[k].run.value, agent'.loops[k].run.value)]_vars
    /\ NewTask.status = "pending"
    /\ ExecutionStarted(NewTask).status = "implementing"

\* a manual improvement whose push failed after every earlier step had
\* succeeded: the call returned and the task is failed
C33_Witness ==
    /\ agent.manual.given
    /\ agent.manual.value.step = "returned"
    /\ agent.manual.value.failed = {"commitAndPush"}
    /\ agent.manual.value.status = "failed"
    /\ ~agent.manual.value.completedAt
    /\ agent.manual.value.outcome = Return(NoValue)


\* C34 (as claimed): over any sequence of startAutonomousMode and
\* stopAutonomousMode calls at most one autonomousCycle loop is alive
C34_AtMostOneLoopAlive == Len(agent.loops) <= 1

Executing == {k \in 1..Len(agent.loops) : agent.loops[k].pc = "executing"}

\* C35 (as claimed): while the agent is stopped and not started again no
\* autonomousCycle loop enters executeImprovement, and the loops eventually
\* exit
C35_NoExecutionAfterStop ==
    /\ [][(~agent.isActive /\ ~agent'.isActive) =>
              Cardinality({k \in 1..Len(agent'.loops) : agent'.loops[k].pc = "executing"})
                  <= Cardinality(Executing)]_vars
    /\ (~agent.isActive) ~> (agent.isActive \/ agent.loops = <<>>)


----------------------------------------------------------------------------
(* Properties of the ModelManager *)

Routed == probe.fn = "getProvider" /\ probe.done

\* the explicit rule the claim names for an id, "none" when it names none
RuleFor(id) ==
    IF StartsWith(id, "gpt-") THEN "gpt-"
    ELSE IF StartsWith(id, "claude-") THEN "claude-"
    ELSE IF Includes(id, "deepseek") THEN "deepseek"
    ELSE IF Includes(id, "sonar") THEN "sonar"
    ELSE IF Includes(id, "genspark") THEN "genspark"
    ELSE "none"

ProviderOfRule(rule) ==
    CASE rule = "gpt-" -> "OpenAI"
      [] rule = "claude-" -> "Anthropic"
      [] rule = "deepseek" -> "DeepSeek"
      [] rule = "sonar" -> "Perplexity"
      [] rule = "genspark" -> "DeepSeek"

\* whether some condition of getProvider's if-chain holds of the id
MatchesSomeRule(id) ==
    \/ StartsWith(id, "gpt-") \/ StartsWith(id, "claude-") \/ StartsWith(id, "deepseek-")
    \/ \E word \in {"openai", "anthropic", "deepseek", "sonar", "perplexity", "genspark"} :
           Includes(id, word)

\* C38: getProvider answers for every id and never by its default branch for
\* an id isValidModel accepts: such an id is routed by an explicit rule (gpt-
\* to OpenAI, claude- to Anthropic, deepseek to DeepSeek, sonar to Perplexity,
\* genspark to DeepSeek); an id that matches no rule gets the OpenAI default
\* and no error
C38_ValidIdsRoutedByRule ==
    Routed =>
        /\ probe.out.kind = "return"
        /\ probe.out.value \in {"OpenAI", "Anthropic", "DeepSeek", "Perplexity"}
        /\ isValidModel(probe.args.modelId) =>
              /\ MatchesSomeRule(probe.args.modelId)
              /\ RuleFor(probe.args.modelId) # "none"
              /\ probe.out.value = ProviderOfRule(RuleFor(probe.args.modelId))
        /\ ~MatchesSomeRule(probe.args.modelId) => probe.out.value = "OpenAI"

\* genspark-analyst, the one valid id that only the last rule catches
C38_Witness ==
    /\ Routed
    /\ probe.args.modelId = "genspark-analyst"
    /\ isValidModel(probe.args.modelId)
    /\ probe.out = Return("DeepSeek")


----------------------------------------------------------------------------
(* Properties of the WebSocket chat handler *)

RECURSIVE Joined(_)
Joined(chunks) ==
    IF chunks = <<>> THEN "" ELSE chunks[1] \o Joined(Tail(chunks))

StreamCompleted(call) ==
    Streams(getProvider(call.model)) /\ call.phase \in {"completing", "titling", "done"}

\* C36: when a stream completes, the stored assistant message holds the
\* chunks delivered for it, concatenated in arrival order, and the empty
\* terminating stream_chunk with isComplete goes out only after that update;
\* when the stream ends with onError the assistant message's content stays
\* as it was
C36_ContentIsConcatenation ==
    /\ \A c \in 1..Len(chat.calls) :
          LET call == chat.calls[c]
          IN  /\ StreamCompleted(call) =>
                    chat.stored[call.assistantId].content = Joined(call.chunks)
              /\ call.phase = "failed" => chat.stored[call.assistantId].content = ""
    /\ \A i \in 1..Len(chat.sent) :
          chat.sent[i].isComplete =>
              /\ chat.sent[i].chunk = ""
              /\ \E c \in 1..Len(chat.calls) :
                    /\ chat.calls[c].assistantId = chat.sent[i].messageId
                    /\ chat.calls[c].phase \in {"titling", "done"}
                    /\ chat.stored[chat.sent[i].messageId].content
                           = Joined(chat.calls[c].chunks)
                    /\ \A j \in (i + 1)..Len(chat.sent) :
                          chat.sent[j].messageId # chat.sent[i].messageId

\* two chunks, then the end of the stream: "ab" is stored and the
\* terminating frame is the last of the three frames sent
C36_Witness ==
    /\ Len(chat.calls) = 1
    /\ chat.calls[1].chunks = <<"a", "b">>
    /\ chat.calls[1].phase = "titling"
    /\ chat.stored[2].content = "ab"
    /\ Len(chat.sent) = 3
    /\ chat.sent[3] = Frame("stream_chunk", 2, "", TRUE, "")

\* C37 (as claimed): the history passed to the provider never holds an
\* assistant turn with empty content
C37_NoEmptyAssistantTurn ==
    \A c \in 1..Len(chat.calls) :
        \A i \in 1..Len(chat.calls[c].history) :
            ~(/\ chat.calls[c].history[i].role = "assistant"
              /\ chat.calls[c].history[i].content = "")

====
